---- MODULE Spec2Model ----
(***************************************************************************)
(* unmonitarr: release-group driven unmonitoring of movies (Radarr) and    *)
(* of episodes, seasons and series (Sonarr), with the persisted            *)
(* ProcessingState.  The model follows src/unmonitarr.py: one scan is one  *)
(* call of process_media, split at the calls it makes per unit.            *)
(***************************************************************************)
EXTENDS Integers, Sequences, FiniteSets, TLC

\* ---------------------------------------------------------------- bounds
NumMovies == 2      \* movies in the Radarr library
MaxScans  == 2      \* calls of process_media in one behaviour
MaxFaults == 1      \* failed HTTP requests / file writes in one behaviour
NumWorkers == 2     \* config['concurrent'] of a batch run by the thread pool

Movies        == 1..NumMovies
SeriesIds     == {1}
SeasonNumbers == {0, 1, 2}

\* Episode identifiers of the series: season 1 has two episode slots, every
\* other season one.  The identifier encodes the series and the season.
EpisodesIn(sn) == IF sn = 1 THEN {1, 2} ELSE {1}
EpisodeId(sid, sn, k) == 100 * sid + 10 * sn + k
EpisodeIds ==
    UNION {{EpisodeId(sid, sn, k) : k \in EpisodesIn(sn)} :
              sid \in SeriesIds, sn \in SeasonNumbers}
SeriesOf(e) == e \div 100
SeasonOf(e) == (e % 100) \div 10
\* identifier under which a season-level PUT is logged
SeasonId(sid, sn) == 100 * sid + 10 * sn

\* What the library holds for a unit's file.  A file is represented by what
\* get_release_group extracts from its path: a label, "" for no label
\* (None), "NOPATH" for a file record without a 'path' key, or "NULLPATH"
\* for a file record whose 'path' is null: get_release_group then raises a
\* TypeError, which only the handler of process_movie / process_episode
\* catches.
NoPath == "NOPATH"
NullPath == "NULLPATH"
FileKinds == {"GRP", "grp", "OTH", "", NoPath, NullPath}
MovieFileLists ==
    {<< >>, <<"GRP">>, <<"OTH">>, <<"">>, <<"GRP", "grp">>, <<NullPath>>,
     <<"GRP", NullPath>>}
MovieFileChoices(m) ==
    IF m = 1 THEN MovieFileLists
    ELSE IF m = 2 THEN {<<"GRP">>, <<"OTH">>}
    ELSE {<<"GRP">>}
\* "ABSENT": hasFile is false; "NOFILEID": hasFile without episodeFileId.
EpisodeKinds(e) ==
    IF e = EpisodeId(SeriesOf(e), 1, 1) THEN {"GRP"}
    ELSE IF SeasonOf(e) = 0 THEN {"ABSENT", "GRP"}
    ELSE IF SeasonOf(e) = 1 THEN {"ABSENT", "GRP", "OTH", NullPath}
    ELSE {"ABSENT", "GRP", "OTH"}

\* ------------------------------------------------------- list helpers
In(x, list) == \E i \in 1..Len(list) : list[i] = x

Range(list) == {list[i] : i \in 1..Len(list)}

AppendIfMissing_Always(list, x) == Append(list, x)

\* "if x not in L: L.append(x)"
AppendIfMissing(list, x) == IF In(x, list) THEN list ELSE Append(list, x)

\* str.lower() on the labels of the model
Lower(g) ==
    CASE g = "GRP" -> "grp"
      [] g = "OTH" -> "oth"
      [] OTHER     -> g

\* config['release_groups'] and the lower-cased target list built from it
release_groups == <<"GRP">>
target_groups == {Lower(release_groups[i]) : i \in 1..Len(release_groups)}

\* ------------------------------------------------- the ProcessingState
\* Keys of the unmonitored_seasons dict: an int series id as the scan uses
\* it, or the string json.dump turns it into.
IntKey(sid) == <<"int", sid>>
StrKey(sid) == <<"str", sid>>

EmptyDict == [k \in {} |-> << >>]

EmptyRadarr == [processed_ids |-> << >>, unmonitored_ids |-> << >>]
EmptySonarr ==
    [processed_ids |-> << >>, processed_episode_ids |-> << >>,
     unmonitored_ids |-> << >>, unmonitored_episode_ids |-> << >>,
     unmonitored_seasons |-> EmptyDict]
\* last_scan = 0 stands for None
EmptyState == [last_scan |-> 0, radarr |-> EmptyRadarr, sonarr |-> EmptySonarr]

\* dict.get(key, []) and "key in dict" on unmonitored_seasons
HasKey(d, k) == k \in DOMAIN d
GetOrEmpty(d, k) == IF k \in DOMAIN d THEN d[k] ELSE << >>
\* d[k] = v (insert or overwrite)
Put(d, k, v) == [x \in (DOMAIN d) \cup {k} |-> IF x = k THEN v ELSE d[x]]

\* "series_id in unmonitored_seasons and season in unmonitored_seasons.get(series_id, [])"
SeasonTracked(son, sid, sn) ==
    HasKey(son.unmonitored_seasons, IntKey(sid))
    /\ In(sn, GetOrEmpty(son.unmonitored_seasons, IntKey(sid)))

\* "if series_id not in unmonitored_seasons: unmonitored_seasons[series_id] = []"
EnsureTracking(son, sid) ==
    IF HasKey(son.unmonitored_seasons, IntKey(sid)) THEN son
    ELSE [son EXCEPT !.unmonitored_seasons = Put(@, IntKey(sid), << >>)]

\* initialise the entry if needed, then append the season if it is missing
TrackSeason(son, sid, sn) ==
    LET s1 == EnsureTracking(son, sid)
    IN [s1 EXCEPT !.unmonitored_seasons =
            Put(@, IntKey(sid), AppendIfMissing(@[IntKey(sid)], sn))]

\* json.dump of the dict: every key is written as a string; an int key and
\* its string form give the same JSON name, and on load the later one (the
\* int key, inserted during the scan) wins.
JsonSeasons(d) ==
    LET ids == {k[2] : k \in DOMAIN d}
    IN [k \in {StrKey(i) : i \in ids} |->
            IF IntKey(k[2]) \in DOMAIN d THEN d[IntKey(k[2])] ELSE d[k]]

JsonDump(st) == [st EXCEPT !.sonarr.unmonitored_seasons = JsonSeasons(@)]

\* ------------------------------------------------------ remote mutations
\* unmonitor_media / unmonitor_episode: under dry-run report success without
\* a request; otherwise one PUT whose outcome is the result.
unmonitor_media_AlwaysTrue(dry, ok) == [ret |-> TRUE, put |-> ~dry]

unmonitor_media(dry, ok) ==
    IF dry THEN [ret |-> TRUE, put |-> FALSE] ELSE [ret |-> ok, put |-> TRUE]

unmonitor_episode_NoDryRun(dry, ok) == [ret |-> ok, put |-> TRUE]

unmonitor_episode_AlwaysTrue(dry, ok) == [ret |-> TRUE, put |-> ~dry]

unmonitor_episode(dry, ok) ==
    IF dry THEN [ret |-> TRUE, put |-> FALSE] ELSE [ret |-> ok, put |-> TRUE]

PutRec(kind, id, ok) == [kind |-> kind, id |-> id, ok |-> ok]

\* number of failed requests in a log of PUTs
RECURSIVE Failed(_)
Failed(puts) ==
    IF puts = << >> THEN 0
    ELSE (IF Head(puts).ok THEN 0 ELSE 1) + Failed(Tail(puts))

\* "release_group and release_group.lower() in target_groups" for a file
\* record that has a 'path'
GroupIsTarget_AnyGroup(f) == f # ""

GroupIsTarget(f) == f # "" /\ Lower(f) \in target_groups
FileMatches(f) == f # NoPath /\ GroupIsTarget(f)

\* "except Exception as e: logger.error(...); return False" of process_movie
\* and of process_episode: what the function gives its caller when its body
\* ended as r
Caught(r) == IF r.raised THEN [r EXCEPT !.ret = FALSE, !.raised = FALSE] ELSE r

\* ------------------------------------------------------- process_movie
\* The loop "for file in files" of process_movie; the first nfail PUTs fail.
RECURSIVE MovieFileLoop(_, _, _, _, _, _)
MovieFileLoop(id, files, rad, puts, dry, nfail) ==
    IF files = << >>
    THEN [radarr |-> [rad EXCEPT !.processed_ids = AppendIfMissing(@, id)],
          ret |-> FALSE, puts |-> puts, raised |-> FALSE]
    ELSE IF Head(files) = NullPath
    THEN \* get_release_group(None, config) raises
         [radarr |-> rad, ret |-> FALSE, puts |-> puts, raised |-> TRUE]
    ELSE IF FileMatches(Head(files))
    THEN LET r1 == [rad EXCEPT !.processed_ids = AppendIfMissing(@, id)]
             u  == unmonitor_media(dry, nfail = 0)
             p1 == IF u.put THEN Append(puts, PutRec("movie", id, nfail = 0)) ELSE puts
         IN  IF u.ret
             THEN [radarr |-> [r1 EXCEPT !.unmonitored_ids = AppendIfMissing(@, id)],
                   ret |-> TRUE, puts |-> p1, raised |-> FALSE]
             ELSE MovieFileLoop(id, Tail(files), r1, p1, dry, nfail - 1)
    ELSE MovieFileLoop(id, Tail(files), rad, puts, dry, nfail)

\* TRUE when process_movie reaches get_file_details for the item
MovieNeedsFiles(item, rad) == ~In(item.id, rad.unmonitored_ids) /\ item.monitored

MovieTry_NoReconcile(item, files, rad, dry, nfail) ==
    IF In(item.id, rad.unmonitored_ids)
    THEN [radarr |-> rad, ret |-> FALSE, puts |-> << >>, raised |-> FALSE]
    ELSE IF ~item.monitored
    THEN [radarr |-> [rad EXCEPT !.processed_ids = AppendIfMissing(@, item.id)],
          ret |-> FALSE, puts |-> << >>, raised |-> FALSE]
    ELSE MovieFileLoop(item.id, files, rad, << >>, dry, nfail)

\* the "try:" block of process_movie.
\* files: what get_file_details returned (empty when the request failed)
MovieTry(item, files, rad, dry, nfail) ==
    IF In(item.id, rad.unmonitored_ids)
    THEN [radarr |-> rad, ret |-> FALSE, puts |-> << >>, raised |-> FALSE]
    ELSE IF ~item.monitored
    THEN [radarr |-> [rad EXCEPT
                        !.unmonitored_ids = AppendIfMissing(@, item.id),
                        !.processed_ids = AppendIfMissing(@, item.id)],
          ret |-> FALSE, puts |-> << >>, raised |-> FALSE]
    ELSE MovieFileLoop(item.id, files, rad, << >>, dry, nfail)

process_movie_NoHandler(item, files, rad, dry, nfail) ==
    MovieTry(item, files, rad, dry, nfail)

process_movie(item, files, rad, dry, nfail) ==
    Caught(MovieTry(item, files, rad, dry, nfail))

\* ----------------------------------------------------- process_episode
\* TRUE when process_episode reaches get_file_details for the episode
EpisodeNeedsFile(ep, son) ==
    /\ ~In(ep.id, son.unmonitored_episode_ids)
    /\ ep.monitored
    /\ ep.hasFile /\ ep.episodeFileId # 0

MarkEpisodeProcessed(son, id) ==
    [son EXCEPT !.processed_episode_ids = AppendIfMissing(@, id)]

\* process_episode after its first test.
\* files: what get_file_details(config, None, episodeFileId) returned
EpisodeDecision(ep, files, son, dry, ok) ==
    IF ~ep.monitored
    THEN [sonarr |-> [son EXCEPT
                        !.unmonitored_episode_ids = AppendIfMissing(@, ep.id),
                        !.processed_episode_ids = AppendIfMissing(@, ep.id)],
          ret |-> FALSE, puts |-> << >>, raised |-> FALSE]
    ELSE IF ~ep.hasFile \/ ep.episodeFileId = 0
    THEN [sonarr |-> MarkEpisodeProcessed(son, ep.id), ret |-> FALSE, puts |-> << >>, raised |-> FALSE]
    ELSE IF files = << >>
    THEN [sonarr |-> MarkEpisodeProcessed(son, ep.id), ret |-> FALSE, puts |-> << >>, raised |-> FALSE]
    ELSE IF Head(files) = NoPath
    THEN [sonarr |-> MarkEpisodeProcessed(son, ep.id), ret |-> FALSE, puts |-> << >>, raised |-> FALSE]
    ELSE IF Head(files) = NullPath
    THEN \* get_release_group(None, config) raises
         [sonarr |-> son, ret |-> FALSE, puts |-> << >>, raised |-> TRUE]
    ELSE IF GroupIsTarget(Head(files))
    THEN LET s1 == MarkEpisodeProcessed(son, ep.id)
             u  == unmonitor_episode(dry, ok)
             p1 == IF u.put THEN <<PutRec("episode", ep.id, ok)>> ELSE << >>
         IN  IF u.ret
             THEN [sonarr |-> [s1 EXCEPT
                                 !.unmonitored_episode_ids = AppendIfMissing(@, ep.id)],
                   ret |-> TRUE, puts |-> p1, raised |-> FALSE]
             ELSE [sonarr |-> s1, ret |-> FALSE, puts |-> p1, raised |-> FALSE]
    ELSE [sonarr |-> MarkEpisodeProcessed(son, ep.id), ret |-> FALSE, puts |-> << >>, raised |-> FALSE]

process_episode_NoSkip(ep, files, son, dry, ok) ==
    Caught(EpisodeDecision(ep, files, son, dry, ok))

\* process_episode: "Skip if already unmonitored in our tracking", then the rest
EpisodeTry(ep, files, son, dry, ok) ==
    IF In(ep.id, son.unmonitored_episode_ids)
    THEN [sonarr |-> son, ret |-> FALSE, puts |-> << >>, raised |-> FALSE]
    ELSE EpisodeDecision(ep, files, son, dry, ok)

process_episode(ep, files, son, dry, ok) ==
    Caught(EpisodeTry(ep, files, son, dry, ok))

\* ================================================================ state
VARIABLES
    \* the remote libraries
    movie_files,        \* movie id -> list of file records (never changes)
    movie_monitored,    \* movie id -> monitored flag in Radarr
    episode_kind,       \* episode id -> "ABSENT" or its file (never changes)
    episode_monitored,  \* episode id -> monitored flag in Sonarr
    season_monitored,   \* series id -> season number -> monitored flag
    series_monitored,   \* series id -> monitored flag of the series record
    \* the program
    configs,            \* services of the configuration file
    dry_run,            \* config['dry_run'] of the scan
    monitoring_mode,    \* process_media's monitoring_mode
    state,              \* the in-memory ProcessingState
    state_file,         \* the persisted state file
    backup_file,        \* the copy save_state makes of it ("state_file.bak")
    pc,                 \* position in process_media
    movies,             \* movies still to process in process_media_radarr
    unmonitored_count,  \* process_media_radarr's result counter
    series_list,        \* series still to process in process_media_sonarr
    series_id,          \* series in process_series_hierarchical
    seasons,            \* seasons still to visit in its loop
    season_number,      \* season whose episodes are being processed
    episodes,           \* episodes of the season still to process
    season_unmonitored_count,   \* episodes unmonitored in this season
    unmonitored_seasons,        \* seasons unmonitored for this series
    puts,               \* PUT requests issued in this scan, in order
    scans,              \* scans started
    faults,             \* failed requests so far
    scan_faults,        \* failed requests in this scan
    failed_units,       \* units whose mutation failed in the last saved scan
    attempt,            \* get_episodes: the loop variable of its retry loop
    retry_delay,        \* get_episodes: seconds to wait before the next attempt
    sleeps,             \* the delays get_episodes has waited, in order
    outcomes,           \* whether each request of get_episodes succeeded, in order
    file_path,          \* the file name handed to get_release_group
    release_group,      \* what get_release_group returned for it
    reports,            \* per scan started: its modes and the units it reported
                        \* as unmonitored ("Unmonitored ..." / "Would have
                        \* unmonitored ...")
    errors,             \* units of this scan whose evaluation met a failed read
                        \* of their files or ended in the exception handler
    workers             \* the threads of the pool that runs an episode batch

extractor == <<file_path, release_group>>
retry == <<attempt, retry_delay, sleeps, outcomes>>
remote == <<movie_files, movie_monitored, episode_kind, episode_monitored,
            season_monitored, series_monitored>>
locals == <<movies, unmonitored_count, series_list, series_id, seasons,
            season_number, episodes, season_unmonitored_count,
            unmonitored_seasons>>
vars == <<remote, configs, retry, extractor, dry_run, monitoring_mode, state, state_file, backup_file, pc,
          locals, puts, scans, faults, scan_faults, failed_units, reports, errors,
          workers>>

\* Every item of the libraries was added before the first scan.
DateAdded(kind, id) == 0

\* ----------------------------------------------------- remote reads
\* ascending list of the members of a set of integers
RECURSIVE Sorted(_)
Sorted(S) ==
    IF S = {} THEN << >>
    ELSE LET m == CHOOSE x \in S : \A y \in S : x <= y
         IN  <<m>> \o Sorted(S \ {m})

MovieItem(m) ==
    [id |-> m, monitored |-> movie_monitored[m], added |-> DateAdded("movie", m),
     file_added |-> DateAdded("moviefile", m)]

EpisodeItem(e) ==
    [id |-> e, seriesId |-> SeriesOf(e), seasonNumber |-> SeasonOf(e),
     monitored |-> episode_monitored[e],
     hasFile |-> episode_kind[e] # "ABSENT",
     episodeFileId |-> IF episode_kind[e] \in {"ABSENT", "NOFILEID"} THEN 0 ELSE e,
     file_added |-> DateAdded("episodefile", e)]

SeasonItem(sid, sn) == [seasonNumber |-> sn, monitored |-> season_monitored[sid][sn]]

\* the series record of the library, as /series and /series/{id} return it
SeriesItem(sid) ==
    [id |-> sid, monitored |-> series_monitored[sid],
     seasonFolder |-> TRUE, monitorNewItems |-> "all",
     added |-> DateAdded("series", sid),
     seasons |-> [i \in 1..Cardinality(SeasonNumbers) |-> SeasonItem(sid, i - 1)]]

\* fetch_all_media: the whole library, or [] when the request fails
fetch_all_movies(ok) ==
    IF ok THEN [i \in 1..Cardinality(Movies) |-> MovieItem(Sorted(Movies)[i])]
    ELSE << >>
fetch_all_series(ok) ==
    IF ok THEN [i \in 1..Cardinality(SeriesIds) |-> SeriesItem(Sorted(SeriesIds)[i])]
    ELSE << >>

\* get_file_details: the file records of a movie / the record of an episode file
movie_file_details(m, ok) == IF ok THEN movie_files[m] ELSE << >>
episode_file_details(e, ok) == IF ok THEN <<episode_kind[e]>> ELSE << >>

\* get_seasons_for_series: the seasons array of the series record
get_seasons_for_series(sid, ok) == IF ok THEN SeriesItem(sid).seasons ELSE << >>

\* get_episodes: the episodes of the season that have a file; [] when all
\* attempts of the request fail
get_episodes(sid, sn, ok) ==
    IF ~ok THEN << >>
    ELSE LET ids == Sorted({e \in EpisodeIds :
                           /\ SeriesOf(e) = sid /\ SeasonOf(e) = sn
                           /\ EpisodeItem(e).hasFile})
         IN  [i \in 1..Len(ids) |-> EpisodeItem(ids[i])]

\* ------------------------------------------------ fetch_new_media (Radarr)
\* The filter loop over all movies, with its writes to unmonitored_ids.
RECURSIVE FetchNewMovies(_, _, _, _)
FetchNewMovies(items, rad, out, last_scan) ==
    IF items = << >> THEN [radarr |-> rad, out |-> out]
    ELSE LET item == Head(items)
             include_item == item.added > last_scan \/ item.file_added > last_scan
         IN  IF In(item.id, rad.unmonitored_ids)
             THEN FetchNewMovies(Tail(items), rad, out, last_scan)
             ELSE IF ~item.monitored
             THEN FetchNewMovies(Tail(items),
                      [rad EXCEPT !.unmonitored_ids = AppendIfMissing(@, item.id)],
                      out, last_scan)
             ELSE IF include_item \/ ~In(item.id, rad.processed_ids)
             THEN FetchNewMovies(Tail(items), rad, Append(out, item), last_scan)
             ELSE FetchNewMovies(Tail(items), rad, out, last_scan)

\* ------------------------------------------------ fetch_new_media (Sonarr)
\* The season loop for one series: seasons tracked or unmonitored upstream
\* are skipped, the episodes of the others are collected.  fail: the seasons
\* whose episode request fails.  called: the seasons that were requested.
RECURSIVE NewMediaSeasons(_, _, _, _, _, _)
NewMediaSeasons(sid, ss, son, eps, called, fail) ==
    IF ss = << >> THEN [sonarr |-> son, episodes |-> eps, called |-> called]
    ELSE LET sn == Head(ss).seasonNumber
         IN  IF SeasonTracked(son, sid, sn)
             THEN NewMediaSeasons(sid, Tail(ss), son, eps, called, fail)
             ELSE IF ~Head(ss).monitored
             THEN NewMediaSeasons(sid, Tail(ss), TrackSeason(son, sid, sn),
                                  eps, called, fail)
             ELSE NewMediaSeasons(sid, Tail(ss), son,
                      eps \o get_episodes(sid, sn, SeasonId(sid, sn) \notin fail),
                      called \cup {SeasonId(sid, sn)}, fail)

\* The episode loop: stops at the first episode that needs processing.
RECURSIVE NewMediaEpisodes(_, _, _)
NewMediaEpisodes(eps, son, last_scan) ==
    IF eps = << >> THEN [sonarr |-> son, needs_processing |-> FALSE]
    ELSE LET episode == Head(eps)
         IN  IF In(episode.id, son.unmonitored_episode_ids)
             THEN NewMediaEpisodes(Tail(eps), son, last_scan)
             ELSE IF ~episode.monitored
             THEN NewMediaEpisodes(Tail(eps),
                      [son EXCEPT !.unmonitored_episode_ids =
                                      AppendIfMissing(@, episode.id)],
                      last_scan)
             ELSE IF ~episode.hasFile \/ episode.episodeFileId = 0
             THEN NewMediaEpisodes(Tail(eps), son, last_scan)
             ELSE IF episode.file_added > last_scan
             THEN [sonarr |-> son, needs_processing |-> TRUE]
             ELSE IF ~In(episode.id, son.processed_episode_ids)
             THEN [sonarr |-> son, needs_processing |-> TRUE]
             ELSE NewMediaEpisodes(Tail(eps), son, last_scan)

\* The loop over all series.
SeriesSkipped_Never(series, son) == FALSE

\* "if series['id'] in state['sonarr'].get('unmonitored_ids', []): continue"
SeriesSkipped(series, son) == In(series.id, son.unmonitored_ids)

RECURSIVE FetchNewSeries(_, _, _, _, _, _)
FetchNewSeries(all_series, son, out, called, last_scan, fail) ==
    IF all_series = << >> THEN [sonarr |-> son, out |-> out, called |-> called]
    ELSE LET series == Head(all_series)
             added_recently == series.added > last_scan
             a == IF added_recently
                  THEN [sonarr |-> son, episodes |-> << >>, called |-> {}]
                  ELSE NewMediaSeasons(series.id, series.seasons, son, << >>, {}, fail)
             b == IF added_recently
                  THEN [sonarr |-> son, needs_processing |-> FALSE]
                  ELSE NewMediaEpisodes(a.episodes, a.sonarr, last_scan)
             include_series == added_recently \/ b.needs_processing
         IN  IF SeriesSkipped(series, son)
             THEN FetchNewSeries(Tail(all_series), son, out, called, last_scan, fail)
             ELSE FetchNewSeries(Tail(all_series), b.sonarr,
                      IF include_series \/ ~In(series.id, b.sonarr.processed_ids)
                      THEN Append(out, series) ELSE out,
                      called \cup a.called, last_scan, fail)

\* ------------------------------------------------------- season rollup
AllEpisodesUnmonitored_Any(episodes_with_files, unmonitored_episode_ids) ==
    \E i \in 1..Len(episodes_with_files) :
        In(episodes_with_files[i].id, unmonitored_episode_ids)

\* "unmonitored_count == len(episodes_with_files) and unmonitored_count > 0"
AllEpisodesUnmonitored(episodes_with_files, unmonitored_episode_ids) ==
    LET unmonitored == {i \in 1..Len(episodes_with_files) :
                           In(episodes_with_files[i].id, unmonitored_episode_ids)}
    IN  Cardinality(unmonitored) = Len(episodes_with_files)
        /\ Cardinality(unmonitored) > 0

unmonitor_season_TrackOnFailure(sid, sn, son, dry, f) ==
    IF dry THEN [sonarr |-> son, ret |-> TRUE, puts |-> << >>, failed |-> FALSE]
    ELSE IF f = "get"
    THEN [sonarr |-> son, ret |-> FALSE, puts |-> << >>, failed |-> TRUE]
    ELSE [sonarr |-> TrackSeason(son, sid, sn), ret |-> f # "put",
          puts |-> <<PutRec("season", SeasonId(sid, sn), f # "put")>>,
          failed |-> f = "put"]

\* unmonitor_season.  f: "ok", or the request that fails ("get", "put").
\* Under dry-run it reports success and records nothing.
unmonitor_season(sid, sn, son, dry, f) ==
    IF dry THEN [sonarr |-> son, ret |-> TRUE, puts |-> << >>, failed |-> FALSE]
    ELSE IF f = "get"
    THEN [sonarr |-> son, ret |-> FALSE, puts |-> << >>, failed |-> TRUE]
    ELSE IF f = "put"
    THEN [sonarr |-> son, ret |-> FALSE,
          puts |-> <<PutRec("season", SeasonId(sid, sn), FALSE)>>, failed |-> TRUE]
    ELSE [sonarr |-> TrackSeason(son, sid, sn), ret |-> TRUE,
          puts |-> <<PutRec("season", SeasonId(sid, sn), TRUE)>>, failed |-> FALSE]

\* check_and_unmonitor_season.  f: "ok", "episodes" (get_episodes fails),
\* "get" or "put".  failed: the failing request was reached.
check_and_unmonitor_season(sid, sn, son, dry, f) ==
    LET all_episodes == get_episodes(sid, sn, f # "episodes")
        episodes_with_files ==
            SelectSeq(all_episodes, LAMBDA ep : ep.hasFile)
    IN  IF all_episodes = << >>
        THEN [sonarr |-> son, ret |-> FALSE, puts |-> << >>, failed |-> f = "episodes"]
        ELSE IF episodes_with_files = << >>
        THEN [sonarr |-> son, ret |-> FALSE, puts |-> << >>, failed |-> FALSE]
        ELSE IF AllEpisodesUnmonitored(episodes_with_files, son.unmonitored_episode_ids)
        THEN unmonitor_season(sid, sn, son, dry, f)
        ELSE [sonarr |-> son, ret |-> FALSE, puts |-> << >>, failed |-> FALSE]

\* ------------------------------------------------------- series rollup
\* The loop of check_and_unmonitor_full_series that collects the seasons
\* other than season 0 whose episode request returned episodes with files.
RECURSIVE SeasonsWithFiles_WithSpecials(_, _, _)
SeasonsWithFiles_WithSpecials(sid, ss, fail) ==
    IF ss = << >> THEN << >>
    ELSE LET sn == Head(ss).seasonNumber
             eps == get_episodes(sid, sn, SeasonId(sid, sn) \notin fail)
         IN  IF SelectSeq(eps, LAMBDA ep : ep.hasFile) # << >>
             THEN <<sn>> \o SeasonsWithFiles_WithSpecials(sid, Tail(ss), fail)
             ELSE SeasonsWithFiles_WithSpecials(sid, Tail(ss), fail)

RECURSIVE SeasonsWithFiles(_, _, _)
SeasonsWithFiles(sid, ss, fail) ==
    IF ss = << >> THEN << >>
    ELSE LET sn == Head(ss).seasonNumber
             eps == get_episodes(sid, sn, SeasonId(sid, sn) \notin fail)
             episodes_with_files == SelectSeq(eps, LAMBDA ep : ep.hasFile)
         IN  IF sn = 0 THEN SeasonsWithFiles(sid, Tail(ss), fail)
             ELSE IF episodes_with_files # << >>
             THEN <<sn>> \o SeasonsWithFiles(sid, Tail(ss), fail)
             ELSE SeasonsWithFiles(sid, Tail(ss), fail)

\* "all(season in unmonitored_seasons for season in seasons_with_files)
\*  and unmonitored_seasons"
AllSeasonsUnmonitored(seasons_with_files, tracked) ==
    (\A i \in 1..Len(seasons_with_files) : In(seasons_with_files[i], tracked))
    /\ tracked # << >>

SeriesPutBody_UnmonitorsSeasons(series) ==
    [series EXCEPT !.monitored = FALSE,
                   !.seasons = [i \in DOMAIN @ |-> [@[i] EXCEPT !.monitored = FALSE]]]

\* "series['monitored'] = False": the record unmonitor_series_keep_seasons
\* sends, made from the record it read
SeriesPutBody(series) == [series EXCEPT !.monitored = FALSE]

\* the log entry of a series PUT: the record read before it and the one sent
SeriesPutRec(sid, ok, read) ==
    [kind |-> "series", id |-> sid, ok |-> ok, read |-> read,
     body |-> SeriesPutBody(read)]

\* unmonitor_series_keep_seasons
unmonitor_series_keep_seasons(sid, son, dry, f) ==
    IF dry THEN [sonarr |-> son, ret |-> TRUE, puts |-> << >>, failed |-> FALSE]
    ELSE IF f = "get"
    THEN [sonarr |-> son, ret |-> FALSE, puts |-> << >>, failed |-> TRUE]
    ELSE IF f = "put"
    THEN [sonarr |-> son, ret |-> FALSE,
          puts |-> <<SeriesPutRec(sid, FALSE, SeriesItem(sid))>>, failed |-> TRUE]
    ELSE [sonarr |-> [son EXCEPT !.unmonitored_ids = AppendIfMissing(@, sid)],
          ret |-> TRUE, puts |-> <<SeriesPutRec(sid, TRUE, SeriesItem(sid))>>,
          failed |-> FALSE]

\* check_and_unmonitor_full_series.  f: "ok", "seasons" (get_seasons_for_series
\* fails), "get" or "put"; fail: the seasons whose episode request fails.
check_and_unmonitor_full_series(sid, son, dry, f, fail) ==
    LET ss == get_seasons_for_series(sid, f # "seasons")
        s1 == EnsureTracking(son, sid)
        tracked == s1.unmonitored_seasons[IntKey(sid)]
        seasons_with_files == SeasonsWithFiles(sid, ss, fail)
    IN  IF ss = << >>
        THEN [sonarr |-> son, ret |-> FALSE, puts |-> << >>, failed |-> f = "seasons"]
        ELSE IF seasons_with_files = << >>
        THEN [sonarr |-> s1, ret |-> FALSE, puts |-> << >>, failed |-> FALSE]
        ELSE IF AllSeasonsUnmonitored(seasons_with_files, tracked)
        THEN unmonitor_series_keep_seasons(sid, s1, dry, f)
        ELSE [sonarr |-> s1, ret |-> FALSE, puts |-> << >>, failed |-> FALSE]

\* ------------------------------------------------- load_state, save_state
\* load_state: the parsed file; the default state when there is no file or
\* when reading it raises.
\* "if key not in d: d[key] = v"
WithDefault(d, key, v) ==
    IF key \in DOMAIN d THEN d
    ELSE [k \in (DOMAIN d) \cup {key} |-> IF k = key THEN v ELSE d[k]]

\* "Upgrade old state format if necessary": the keys load_state adds to the
\* sections that the file has
UpgradeRadarr(st) ==
    IF "radarr" \in DOMAIN st
    THEN [st EXCEPT !.radarr = WithDefault(@, "unmonitored_ids", << >>)]
    ELSE st
UpgradeSonarr(st) ==
    IF "sonarr" \in DOMAIN st
    THEN [st EXCEPT !.sonarr =
            WithDefault(WithDefault(WithDefault(@, "unmonitored_ids", << >>),
                                    "unmonitored_episode_ids", << >>),
                        "unmonitored_seasons", EmptyDict)]
    ELSE st

\* load_state: the JSON object of a file that can be read and parsed, with
\* the upgrade; the default state when there is no file ("absent") or when
\* reading or parsing raised
load_state(file) ==
    IF file.status = "ok" THEN UpgradeSonarr(UpgradeRadarr(file.content)) ELSE EmptyState

ForceFullScan_ClearsAll(st) ==
    [st EXCEPT !.radarr = EmptyRadarr,
               !.sonarr.processed_ids = << >>,
               !.sonarr.processed_episode_ids = << >>]

ForceFullScan_KeepsEpisodes(st) ==
    [st EXCEPT !.radarr.processed_ids = << >>,
               !.sonarr.processed_ids = << >>]

\* "if force_full_scan and state": clear the processed lists
ForceFullScan(st) ==
    [st EXCEPT !.radarr.processed_ids = << >>,
               !.sonarr.processed_ids = << >>,
               !.sonarr.processed_episode_ids = << >>]

\* save_state.  f: "ok"; "early": an exception before the file is opened
\* for writing; "write": an exception while writing, which leaves a
\* truncated file.  now: datetime.now().  Returns the state and the file.
\* "if os.path.exists(state_file): shutil.copy2(state_file, backup_file)":
\* the backup after save_state; the copy is not reached when f = "early"
backup_state(file, backup, f) ==
    IF f # "early" /\ file.status # "absent" THEN file ELSE backup

save_state(st, file, now, f) ==
    LET st1 == [st EXCEPT !.last_scan = now]
    IN  IF f = "early" THEN [state |-> st, file |-> file]
        ELSE IF f = "write"
        THEN [state |-> st1, file |-> [status |-> "corrupt", content |-> EmptyState]]
        ELSE [state |-> st1, file |-> [status |-> "ok", content |-> JsonDump(st1)]]

\* ================================================================ Init
\* a thread of the pool: the episode it holds, the operations of
\* process_episode it still has to run, the outcome of its membership test
IdleWorker ==
    [pc |-> "idle", ep |-> 0, todo |-> << >>, rest |-> << >>, found |-> FALSE,
     ret |-> FALSE]
IdleWorkers == [w \in 1..NumWorkers |-> IdleWorker]
\* config.get('concurrent', 1) is the number of threads; 1 means the
\* sequential loops, which use no pool
max_workers == Len(workers)

SeasonIds == {SeasonId(sid, sn) : sid \in SeriesIds, sn \in SeasonNumbers}

\* The libraries a behaviour may start from.  At most one episode and one
\* season start unmonitored upstream.
MovieLibraries ==
    {lib \in [files : [Movies -> MovieFileLists], monitored : [Movies -> BOOLEAN]] :
        \A m \in Movies : /\ lib.files[m] \in MovieFileChoices(m)
                          /\ m # 1 => lib.monitored[m]}
SeriesLibraries ==
    {lib \in [kind : [EpisodeIds -> {"ABSENT", "GRP", "OTH", NullPath}],
              monitored : [EpisodeIds -> BOOLEAN],
              seasons : [SeriesIds -> [SeasonNumbers -> BOOLEAN]]] :
        /\ \A e \in EpisodeIds :
              /\ lib.kind[e] \in EpisodeKinds(e)
              /\ ~lib.monitored[e] => e = EpisodeId(SeriesOf(e), 1, 2) /\ lib.kind[e] = "GRP"
        /\ \A sid \in SeriesIds : \A sn \in SeasonNumbers :
              ~lib.seasons[sid][sn] =>
                  /\ sn = 2
                  /\ lib.kind[EpisodeId(sid, 2, 1)] = "GRP"
                  /\ lib.monitored[EpisodeId(sid, 1, 2)]}
\* The library of a service when the behaviour varies the other one, or
\* configures both: every unit monitored, every file from the target group.
PlainMovies ==
    [files |-> [m \in Movies |-> <<"GRP">>], monitored |-> [m \in Movies |-> TRUE]]
PlainSeries ==
    [kind |-> [e \in EpisodeIds |-> "GRP"], monitored |-> [e \in EpisodeIds |-> TRUE],
     seasons |-> [sid \in SeriesIds |-> [sn \in SeasonNumbers |-> TRUE]]]

ConfigChoices == {{"radarr"}, {"sonarr"}, {"radarr", "sonarr"}}

\* the state after construction with `concurrent` threads configured
InitOf(concurrent) ==
    /\ configs \in ConfigChoices
    /\ \E ml \in MovieLibraries, sl \in SeriesLibraries :
          /\ configs # {"radarr"} => ml = PlainMovies
          /\ configs # {"sonarr"} => sl = PlainSeries
          /\ movie_files = ml.files
          /\ movie_monitored = ml.monitored
          /\ episode_kind = sl.kind
          /\ episode_monitored = sl.monitored
          /\ season_monitored = sl.seasons
    /\ series_monitored = [sid \in SeriesIds |-> TRUE]
    /\ dry_run = FALSE
    /\ monitoring_mode = FALSE
    /\ state = EmptyState
    /\ state_file = [status |-> "absent", content |-> EmptyState]
    /\ backup_file = [status |-> "absent", content |-> EmptyState]
    /\ pc = "idle"
    /\ movies = << >>
    /\ unmonitored_count = 0
    /\ series_list = << >>
    /\ series_id = 0
    /\ seasons = << >>
    /\ season_number = -1
    /\ episodes = << >>
    /\ season_unmonitored_count = 0
    /\ unmonitored_seasons = 0
    /\ puts = << >>
    /\ scans = 0
    /\ faults = 0
    /\ scan_faults = 0
    /\ failed_units = {}
    /\ errors = {}
    /\ reports = << >>
    /\ file_path = << >>
    /\ attempt = 0
    /\ retry_delay = 2
    /\ sleeps = << >>
    /\ outcomes = << >>
    /\ release_group = << >>
    /\ workers = [w \in 1..concurrent |-> IdleWorker]

Init == InitOf(1)

\* ============================================================= actions
AnyOk(ps) == \E i \in 1..Len(ps) : ps[i].ok
Bit(b) == IF b THEN 1 ELSE 0

\* bookkeeping of a step inside a scan: failed requests of this scan
InScanUnit ==
    /\ scan_faults' = scan_faults + (faults' - faults)
    /\ UNCHANGED <<failed_units, workers>>
InScan == InScanUnit /\ UNCHANGED <<errors, reports>>

\* the scan reports the unit <<kind, id>> as unmonitored when ret is true
Report(kind, id, ret) ==
    reports' = [reports EXCEPT ![Len(reports)].units =
                   IF ret THEN @ \cup {<<kind, id>>} ELSE @]

\* movies and episodes whose PUT was logged in ps and never succeeded there
FailedUnits(ps) ==
    {<<ps[i].kind, ps[i].id>> : i \in {j \in 1..Len(ps) :
        /\ ps[j].kind \in {"movie", "episode"}
        /\ ~\E k \in 1..Len(ps) :
              ps[k].kind = ps[j].kind /\ ps[k].id = ps[j].id /\ ps[k].ok}}

\* process_media up to the first service: load the state in monitoring
\* mode, clear the processed lists on a forced full scan.
StartScan ==
    /\ pc = "idle"
    /\ scans < MaxScans
    /\ \E dry \in BOOLEAN, mode \in BOOLEAN, force \in BOOLEAN :
          /\ force => mode
          /\ dry_run' = dry
          /\ monitoring_mode' = mode
          /\ state' = IF ~mode THEN EmptyState
                      ELSE IF force THEN ForceFullScan(load_state(state_file))
                      ELSE load_state(state_file)
          /\ pc' = IF "radarr" \in configs THEN "radarr_fetch" ELSE "sonarr_fetch"
          /\ reports' = Append(reports, [dry_run |-> dry, monitoring_mode |-> mode,
                                         units |-> {}])
    /\ scans' = scans + 1
    /\ scan_faults' = 0
    /\ errors' = {}
    /\ UNCHANGED <<remote, configs, retry, extractor, state_file, backup_file, locals, puts, faults, failed_units,
                   workers>>

AfterRadarr == IF "sonarr" \in configs THEN "sonarr_fetch" ELSE "save"

\* process_media_radarr up to the loop: fetch_new_media or fetch_all_media
FetchMovies ==
    /\ pc = "radarr_fetch"
    /\ \E ok \in BOOLEAN :
          LET all_media == fetch_all_movies(ok)
              r == IF monitoring_mode /\ state.last_scan # 0
                   THEN FetchNewMovies(all_media, state.radarr, << >>, state.last_scan)
                   ELSE [radarr |-> state.radarr, out |-> all_media]
          IN  /\ faults + Bit(~ok) <= MaxFaults
              /\ faults' = faults + Bit(~ok)
              /\ state' = [state EXCEPT !.radarr = r.radarr]
              /\ movies' = r.out
              /\ pc' = IF r.out = << >> THEN AfterRadarr ELSE "radarr_loop"
    /\ unmonitored_count' = 0
    /\ UNCHANGED <<remote, configs, retry, extractor, dry_run, monitoring_mode, state_file, backup_file,
                   series_list, series_id, seasons, season_number, episodes,
                   season_unmonitored_count, unmonitored_seasons, puts, scans>>
    /\ InScan

\* one iteration of the movie loop: process_movie on the next movie.  Without
\* monitoring mode process_media passes no state and every call gets a new one.
ProcessMovie ==
    /\ pc = "radarr_loop"
    /\ max_workers = 1
    /\ \E getok \in BOOLEAN, nfail \in 0..MaxFaults :
          LET item == Head(movies)
              rad == IF monitoring_mode THEN state.radarr ELSE EmptyRadarr
              files == movie_file_details(item.id, getok)
              res == process_movie(item, files, rad, dry_run, nfail)
              used == Bit(~getok) + nfail
          IN  /\ ~getok => MovieNeedsFiles(item, rad)
              /\ Failed(res.puts) = nfail
              /\ faults + used <= MaxFaults
              /\ faults' = faults + used
              /\ state' = IF monitoring_mode THEN [state EXCEPT !.radarr = res.radarr]
                          ELSE state
              /\ puts' = puts \o res.puts
              /\ movie_monitored' = IF AnyOk(res.puts)
                                    THEN [movie_monitored EXCEPT ![item.id] = FALSE]
                                    ELSE movie_monitored
              /\ unmonitored_count' = unmonitored_count + Bit(res.ret)
              /\ Report("movie", item.id, res.ret)
              /\ movies' = Tail(movies)
              /\ errors' = IF ~getok \/ MovieTry(item, files, rad, dry_run, nfail).raised
                           THEN errors \cup {<<"movie", item.id>>} ELSE errors
              \* an exception that leaves process_movie ends process_media
              /\ pc' = IF res.raised THEN "aborted"
                       ELSE IF Tail(movies) = << >> THEN AfterRadarr ELSE "radarr_loop"
    /\ UNCHANGED <<movie_files, episode_kind, episode_monitored, season_monitored,
                   series_monitored, configs, retry, extractor, dry_run, monitoring_mode, state_file, backup_file,
                   series_list, series_id, seasons, season_number, episodes,
                   season_unmonitored_count, unmonitored_seasons, scans>>
    /\ InScanUnit

\* process_media_sonarr up to the loop
FetchSeries ==
    /\ pc = "sonarr_fetch"
    /\ \E ok \in BOOLEAN, fail \in SUBSET SeasonIds :
          LET all_series == fetch_all_series(ok)
              r == IF monitoring_mode /\ state.last_scan # 0
                   THEN FetchNewSeries(all_series, state.sonarr, << >>, {},
                                       state.last_scan, fail)
                   ELSE [sonarr |-> state.sonarr, out |-> all_series, called |-> {}]
              used == Bit(~ok) + Cardinality(fail)
          IN  /\ fail \subseteq r.called
              /\ faults + used <= MaxFaults
              /\ faults' = faults + used
              /\ state' = [state EXCEPT !.sonarr = r.sonarr]
              /\ series_list' = r.out
              /\ pc' = IF r.out = << >> THEN "save" ELSE "series"
    /\ UNCHANGED <<remote, configs, retry, extractor, dry_run, monitoring_mode, state_file, backup_file, movies,
                   unmonitored_count, series_id, seasons, season_number, episodes,
                   season_unmonitored_count, unmonitored_seasons, puts, scans>>
    /\ InScan

AfterSeries(rest) == IF rest = << >> THEN "save" ELSE "series"
AfterSeason_SeriesCheckAtOnce(rest) == "series_check"

AfterSeason(rest) == IF rest = << >> THEN "series_check" ELSE "season"

\* process_series_hierarchical up to the season loop
BeginSeries ==
    /\ pc = "series"
    /\ \E ok \in BOOLEAN :
          LET sid == Head(series_list).id
              s1 == EnsureTracking(state.sonarr, sid)
              ss == get_seasons_for_series(sid, ok)
          IN  /\ faults + Bit(~ok) <= MaxFaults
              /\ faults' = faults + Bit(~ok)
              /\ series_list' = Tail(series_list)
              /\ IF ss = << >>
                 THEN /\ state' = [state EXCEPT !.sonarr =
                              [s1 EXCEPT !.processed_ids = AppendIfMissing(@, sid)]]
                      /\ pc' = AfterSeries(Tail(series_list))
                      /\ UNCHANGED <<series_id, seasons>>
                 ELSE /\ state' = [state EXCEPT !.sonarr = s1]
                      /\ series_id' = sid
                      /\ seasons' = ss
                      /\ pc' = "season"
    /\ unmonitored_seasons' = 0
    /\ UNCHANGED <<remote, configs, retry, extractor, dry_run, monitoring_mode, state_file, backup_file, movies,
                   unmonitored_count, season_number, episodes,
                   season_unmonitored_count, puts, scans>>
    /\ InScan

\* head of the season loop: skip a tracked season, track and skip a season
\* that is unmonitored upstream, otherwise fetch the season's episodes
NextSeason ==
    /\ pc = "season"
    /\ \E ok \in BOOLEAN :
          LET season == Head(seasons)
              sn == season.seasonNumber
              tracked == SeasonTracked(state.sonarr, series_id, sn)
              eps == get_episodes(series_id, sn, ok)
          IN  /\ ~ok => (~tracked /\ season.monitored)
              /\ faults + Bit(~ok) <= MaxFaults
              /\ faults' = faults + Bit(~ok)
              /\ seasons' = Tail(seasons)
              /\ IF tracked
                 THEN /\ pc' = AfterSeason(Tail(seasons))
                      /\ UNCHANGED <<state, season_number, episodes>>
                 ELSE IF ~season.monitored
                 THEN /\ state' = [state EXCEPT !.sonarr = TrackSeason(@, series_id, sn)]
                      /\ pc' = AfterSeason(Tail(seasons))
                      /\ UNCHANGED <<season_number, episodes>>
                 ELSE IF eps = << >>
                 THEN /\ pc' = AfterSeason(Tail(seasons))
                      /\ UNCHANGED <<state, season_number, episodes>>
                 ELSE /\ season_number' = sn
                      /\ episodes' = eps
                      /\ pc' = "episode"
                      /\ UNCHANGED state
    /\ season_unmonitored_count' = 0
    /\ UNCHANGED <<remote, configs, retry, extractor, dry_run, monitoring_mode, state_file, backup_file, movies,
                   unmonitored_count, series_list, series_id, unmonitored_seasons,
                   puts, scans>>
    /\ InScan

\* one iteration of the episode loop: process_episode on the next episode
ProcessEpisode ==
    /\ pc = "episode"
    /\ max_workers = 1
    /\ \E getok \in BOOLEAN, putok \in BOOLEAN :
          LET ep == Head(episodes)
              files == episode_file_details(ep.id, getok)
              res == process_episode(ep, files, state.sonarr, dry_run, putok)
              used == Bit(~getok) + Bit(~putok)
          IN  /\ ~getok => EpisodeNeedsFile(ep, state.sonarr)
              /\ ~putok => Failed(res.puts) = 1
              /\ faults + used <= MaxFaults
              /\ faults' = faults + used
              /\ state' = [state EXCEPT !.sonarr = res.sonarr]
              /\ puts' = puts \o res.puts
              /\ episode_monitored' = IF AnyOk(res.puts)
                                      THEN [episode_monitored EXCEPT ![ep.id] = FALSE]
                                      ELSE episode_monitored
              /\ season_unmonitored_count' = season_unmonitored_count + Bit(res.ret)
              /\ Report("episode", ep.id, res.ret)
              /\ episodes' = Tail(episodes)
              /\ errors' = IF ~getok \/ EpisodeTry(ep, files, state.sonarr, dry_run,
                                                   putok).raised
                           THEN errors \cup {<<"episode", ep.id>>} ELSE errors
              \* an exception that leaves process_episode ends process_media
              /\ pc' = IF res.raised THEN "aborted"
                       ELSE IF Tail(episodes) = << >> THEN "season_check" ELSE "episode"
    /\ UNCHANGED <<movie_files, movie_monitored, episode_kind, season_monitored,
                   series_monitored, configs, retry, extractor, dry_run, monitoring_mode, state_file, backup_file,
                   movies, unmonitored_count, series_list, series_id, seasons,
                   season_number, unmonitored_seasons, scans>>
    /\ InScanUnit

AnyUnmonitored_Always(count) == TRUE

\* "if season_unmonitored_count > 0:" / "if unmonitored_seasons > 0:"
AnyUnmonitored(count) == count > 0

\* end of a season's iteration: "if season_unmonitored_count > 0:
\* check_and_unmonitor_season(...)"
CheckSeason ==
    /\ pc = "season_check"
    /\ IF AnyUnmonitored(season_unmonitored_count)
       THEN \E f \in {"ok", "episodes", "get", "put"} :
              LET res == check_and_unmonitor_season(series_id, season_number,
                                                    state.sonarr, dry_run, f)
              IN  /\ f # "ok" => res.failed
                  /\ faults + Bit(f # "ok") <= MaxFaults
                  /\ faults' = faults + Bit(f # "ok")
                  /\ state' = [state EXCEPT !.sonarr = res.sonarr]
                  /\ puts' = puts \o res.puts
                  /\ season_monitored' =
                        IF AnyOk(res.puts)
                        THEN [season_monitored EXCEPT ![series_id][season_number] = FALSE]
                        ELSE season_monitored
                  /\ unmonitored_seasons' = unmonitored_seasons + Bit(res.ret)
                  /\ Report("season", SeasonId(series_id, season_number), res.ret)
       ELSE UNCHANGED <<faults, state, puts, season_monitored, unmonitored_seasons,
                        reports>>
    /\ pc' = AfterSeason(seasons)
    /\ UNCHANGED <<movie_files, movie_monitored, episode_kind, episode_monitored,
                   series_monitored, configs, retry, extractor, dry_run, monitoring_mode, state_file, backup_file,
                   movies, unmonitored_count, series_list, series_id, seasons,
                   season_number, episodes, season_unmonitored_count, scans>>
    /\ InScanUnit
    /\ UNCHANGED errors

\* end of process_series_hierarchical: "if unmonitored_seasons > 0:
\* check_and_unmonitor_full_series(...)", then mark the series processed
CheckSeries ==
    /\ pc = "series_check"
    /\ IF AnyUnmonitored(unmonitored_seasons)
       THEN \E f \in {"ok", "seasons", "get", "put"}, fail \in SUBSET SeasonIds :
              LET res == check_and_unmonitor_full_series(series_id, state.sonarr,
                                                         dry_run, f, fail)
                  used == Bit(f # "ok") + Cardinality(fail)
              IN  /\ f # "ok" => res.failed
                  /\ fail \subseteq {SeasonId(series_id, sn) : sn \in SeasonNumbers \ {0}}
                  /\ f = "seasons" => fail = {}
                  /\ faults + used <= MaxFaults
                  /\ faults' = faults + used
                  /\ state' = [state EXCEPT !.sonarr =
                        [res.sonarr EXCEPT !.processed_ids = AppendIfMissing(@, series_id)]]
                  /\ puts' = puts \o res.puts
                  /\ series_monitored' =
                        IF AnyOk(res.puts)
                        THEN [series_monitored EXCEPT ![series_id] =
                                                        res.puts[1].body.monitored]
                        ELSE series_monitored
                  /\ season_monitored' =
                        IF AnyOk(res.puts)
                        THEN [season_monitored EXCEPT ![series_id] =
                                [sn \in SeasonNumbers |->
                                    res.puts[1].body.seasons[sn + 1].monitored]]
                        ELSE season_monitored
                  /\ Report("series", series_id, res.ret)
       ELSE /\ state' = [state EXCEPT !.sonarr.processed_ids =
                                          AppendIfMissing(@, series_id)]
            /\ UNCHANGED <<faults, puts, series_monitored, season_monitored, reports>>
    /\ pc' = AfterSeries(series_list)
    /\ UNCHANGED <<movie_files, movie_monitored, episode_kind, episode_monitored,
                   configs, retry, extractor, dry_run, monitoring_mode, state_file, backup_file,
                   movies, unmonitored_count, series_list, series_id, seasons,
                   season_number, episodes, season_unmonitored_count,
                   unmonitored_seasons, scans>>
    /\ InScanUnit
    /\ UNCHANGED errors

\* process_media returns: its locals are gone
EndOfScan ==
    /\ pc' = "idle"
    /\ dry_run' = FALSE
    /\ monitoring_mode' = FALSE
    /\ puts' = << >>
    /\ movies' = << >>
    /\ unmonitored_count' = 0
    /\ series_list' = << >>
    /\ series_id' = 0
    /\ seasons' = << >>
    /\ season_number' = -1
    /\ episodes' = << >>
    /\ season_unmonitored_count' = 0
    /\ unmonitored_seasons' = 0
    /\ scan_faults' = 0
    /\ errors' = {}
    /\ UNCHANGED <<remote, configs, retry, extractor, scans, workers, reports>>

\* end of process_media: "if monitoring_mode: save_state(state)"
FinishScan ==
    /\ pc = "save"
    /\ IF monitoring_mode
       THEN \E f \in {"ok", "early", "write"} :
              LET r == save_state(state, state_file, scans, f)
              IN  /\ faults + Bit(f # "ok") <= MaxFaults
                  /\ faults' = faults + Bit(f # "ok")
                  /\ state' = r.state
                  /\ state_file' = r.file
                  /\ backup_file' = backup_state(state_file, backup_file, f)
                  /\ failed_units' = IF f = "ok" THEN FailedUnits(puts) ELSE {}
       ELSE /\ state' = EmptyState
            /\ failed_units' = {}
            /\ UNCHANGED <<faults, state_file, backup_file>>
    /\ EndOfScan

Next ==
    \/ StartScan
    \/ FetchMovies
    \/ ProcessMovie
    \/ FetchSeries
    \/ BeginSeries
    \/ NextSeason
    \/ ProcessEpisode
    \/ CheckSeason
    \/ CheckSeries
    \/ FinishScan

Spec == Init /\ [][Next]_vars

\* ========================================================== properties
\* the PUT requests the step adds to the log
NewPuts == SubSeq(puts', Len(puts) + 1, Len(puts'))

\* the ProcessingState the running scan started from, before a forced clear
LoadedState == IF monitoring_mode THEN load_state(state_file) ELSE EmptyState

\* the ProcessingState process_movie works on
ScanRadarr == IF monitoring_mode THEN state.radarr ELSE EmptyRadarr

\* ------------------------------------------------------------------ C1
WithinProcessed(st) ==
    /\ Range(st.radarr.unmonitored_ids) \subseteq Range(st.radarr.processed_ids)
    /\ Range(st.sonarr.unmonitored_episode_ids)
          \subseteq Range(st.sonarr.processed_episode_ids)
    /\ Range(st.sonarr.unmonitored_ids) \subseteq Range(st.sonarr.processed_ids)

\* C1: after a completed scan, in every mode, each of the lists of
\* unmonitored movies, episodes and series is contained in the list of
\* processed units of the same kind -- in the state the scan ends with and
\* in the state file it leaves.
C1_UnmonitoredWithinProcessed ==
    /\ pc = "save" => WithinProcessed(state)
    /\ pc = "idle" => WithinProcessed(load_state(state_file))

\* ------------------------------------------------------------------ C2
\* C2: when process_movie / process_episode decides a unit that is monitored
\* upstream and not yet tracked, the identifier enters the unmonitored list
\* only if the unmonitor call reported success (a successful PUT of the unit;
\* under dry-run the simulated call, which sends nothing), and when every PUT
\* of the unit failed the unit ends in the processed list and not in the
\* unmonitored list.
C2_AddedOnlyOnSuccess ==
    [][ /\ (pc = "radarr_loop" /\ monitoring_mode
              /\ MovieNeedsFiles(Head(movies), state.radarr)) =>
            LET id == Head(movies).id
            IN  /\ In(id, state'.radarr.unmonitored_ids) =>
                      IF dry_run THEN NewPuts = << >>
                      ELSE NewPuts # << >>
                           /\ NewPuts[Len(NewPuts)] = PutRec("movie", id, TRUE)
                /\ (NewPuts # << >> /\ ~AnyOk(NewPuts)) =>
                      /\ In(id, state'.radarr.processed_ids)
                      /\ ~In(id, state'.radarr.unmonitored_ids)
        /\ (pc = "episode" /\ ~In(Head(episodes).id, state.sonarr.unmonitored_episode_ids)
              /\ Head(episodes).monitored) =>
            LET id == Head(episodes).id
            IN  /\ In(id, state'.sonarr.unmonitored_episode_ids) =>
                      IF dry_run THEN NewPuts = << >>
                      ELSE NewPuts = <<PutRec("episode", id, TRUE)>>
                /\ (NewPuts # << >> /\ ~AnyOk(NewPuts)) =>
                      /\ In(id, state'.sonarr.processed_episode_ids)
                      /\ ~In(id, state'.sonarr.unmonitored_episode_ids)
      ]_vars

\* an episode whose PUT failed is processed and not unmonitored, next to an
\* episode whose PUT succeeded and that is unmonitored
C2_FailedAndSucceeded ==
    \E i, j \in 1..Len(puts) :
        /\ puts[i].kind = "episode" /\ ~puts[i].ok
        /\ In(puts[i].id, state.sonarr.processed_episode_ids)
        /\ ~In(puts[i].id, state.sonarr.unmonitored_episode_ids)
        /\ puts[j].kind = "episode" /\ puts[j].ok
        /\ In(puts[j].id, state.sonarr.unmonitored_episode_ids)

\* ------------------------------------------------------------------ C3
\* the item as the library returns it after an evaluation that logged ps
Reread(item, ps) == [item EXCEPT !.monitored = item.monitored /\ ~AnyOk(ps)]

\* process_movie on the next movie, then again on the state and the library
\* the first evaluation left.  clean: no request of the first one failed.
MovieTwice(getok1, nfail1, getok2, nfail2) ==
    LET item == Head(movies)
        first == process_movie(item, movie_file_details(item.id, getok1),
                               ScanRadarr, dry_run, nfail1)
        second == process_movie(Reread(item, first.puts),
                                movie_file_details(item.id, getok2),
                                first.radarr, dry_run, nfail2)
    IN  [first |-> first, second |-> second,
         clean |-> (getok1 \/ ~MovieNeedsFiles(item, ScanRadarr))
                   /\ Failed(first.puts) = 0]

EpisodeTwice(getok1, ok1, getok2, ok2) ==
    LET ep == Head(episodes)
        first == process_episode(ep, episode_file_details(ep.id, getok1),
                                 state.sonarr, dry_run, ok1)
        second == process_episode(Reread(ep, first.puts),
                                  episode_file_details(ep.id, getok2),
                                  first.sonarr, dry_run, ok2)
    IN  [first |-> first, second |-> second,
         clean |-> (getok1 \/ ~EpisodeNeedsFile(ep, state.sonarr))
                   /\ Failed(first.puts) = 0]

PutOutcomes == 0..Len(movie_files[Head(movies).id])

\* a unit whose identifier is in the unmonitored list is skipped: no PUT, the
\* state as it was
SkipsTracked ==
    /\ (pc = "radarr_loop" /\ In(Head(movies).id, ScanRadarr.unmonitored_ids)) =>
          \A getok \in BOOLEAN, nfail \in PutOutcomes :
              process_movie(Head(movies), movie_file_details(Head(movies).id, getok),
                            ScanRadarr, dry_run, nfail)
                  = [radarr |-> ScanRadarr, ret |-> FALSE, puts |-> << >>, raised |-> FALSE]
    /\ (pc = "episode" /\ In(Head(episodes).id, state.sonarr.unmonitored_episode_ids)) =>
          \A getok \in BOOLEAN, ok \in BOOLEAN :
              process_episode(Head(episodes),
                              episode_file_details(Head(episodes).id, getok),
                              state.sonarr, dry_run, ok)
                  = [sonarr |-> state.sonarr, ret |-> FALSE, puts |-> << >>, raised |-> FALSE]

C4_FailedUnitRetried ==
    (pc = "save" /\ monitoring_mode /\ ~dry_run /\ scan_faults = 0) =>
        \A u \in failed_units :
            \E i \in 1..Len(puts) : puts[i].kind = u[1] /\ puts[i].id = u[2]

\* ------------------------------------------------------------------ C5
\* every unmonitored set of a is contained in the one of b
Grows(a, b) ==
    /\ Range(a.radarr.unmonitored_ids) \subseteq Range(b.radarr.unmonitored_ids)
    /\ Range(a.sonarr.unmonitored_episode_ids)
          \subseteq Range(b.sonarr.unmonitored_episode_ids)
    /\ Range(a.sonarr.unmonitored_ids) \subseteq Range(b.sonarr.unmonitored_ids)
    /\ \A k \in DOMAIN a.sonarr.unmonitored_seasons :
          /\ k \in DOMAIN b.sonarr.unmonitored_seasons
          /\ Range(a.sonarr.unmonitored_seasons[k])
                \subseteq Range(b.sonarr.unmonitored_seasons[k])

\* C5: within a scan no identifier leaves an unmonitored set (movies,
\* episodes, series, the seasons recorded per series): the state a scan in
\* monitoring mode starts with, after the forced clear if there is one,
\* holds all that the loaded state holds, and every later step of the scan,
\* the final time stamp included, leaves each set equal or larger.
C5_UnmonitoredOnlyGrows ==
    [][ /\ (pc = "idle" /\ pc' # "idle" /\ monitoring_mode') =>
              Grows(load_state(state_file), state')
        /\ (pc # "idle" /\ (pc' # "idle" \/ monitoring_mode)) =>
              Grows(state, state')
      ]_vars

\* a scan that started from a state with an unmonitored movie and cleared
\* processed list (a forced full scan) and then recorded a second movie
C5_GrownAfterForcedClear ==
    /\ monitoring_mode /\ pc = "save"
    /\ load_state(state_file).radarr.processed_ids # << >>
    /\ Len(state.radarr.unmonitored_ids)
          > Len(load_state(state_file).radarr.unmonitored_ids)
    /\ Range(load_state(state_file).radarr.unmonitored_ids) # {}
    /\ ~Range(load_state(state_file).radarr.processed_ids)
            \subseteq Range(state.radarr.processed_ids)

\* ------------------------------------------------------------------ C6
\* C6: in a dry-run scan no PUT is sent, for a movie, an episode, a season
\* or a series.
C6_DryRunSendsNoPut == dry_run => puts = << >>

\* a dry-run scan that reported episodes and a season as unmonitored
C6_DryRunRollup ==
    /\ dry_run /\ pc = "series_check" /\ unmonitored_seasons > 0
    /\ state.sonarr.unmonitored_episode_ids # << >>

\* ------------------------------------------------------------------ C7
\* C7: a dry-run scan adds no movie and no episode that matched a target
\* group to the unmonitored lists: in a dry-run scan in monitoring mode every
\* identifier of these lists was in the loaded state or is unmonitored
\* upstream.
C7_DryRunAddsNoTarget ==
    (dry_run /\ monitoring_mode /\ pc # "idle") =>
        /\ \A m \in Range(state.radarr.unmonitored_ids) :
              In(m, LoadedState.radarr.unmonitored_ids) \/ ~movie_monitored[m]
        /\ \A e \in Range(state.sonarr.unmonitored_episode_ids) :
              In(e, LoadedState.sonarr.unmonitored_episode_ids)
              \/ ~episode_monitored[e]

\* ------------------------------------------------------------------ C8
\* every unit a ProcessingState lists as unmonitored is unmonitored upstream
TrackedAreUnmonitored(st) ==
    /\ \A m \in Range(st.radarr.unmonitored_ids) : ~movie_monitored[m]
    /\ \A e \in Range(st.sonarr.unmonitored_episode_ids) : ~episode_monitored[e]
    /\ \A sid \in Range(st.sonarr.unmonitored_ids) : ~series_monitored[sid]
    /\ \A k \in DOMAIN st.sonarr.unmonitored_seasons :
          \A sn \in Range(st.sonarr.unmonitored_seasons[k]) :
              ~season_monitored[k[2]][sn]

\* C8: in every reachable state, over dry-run and live scans that share the
\* state file and with nobody else changing the libraries, every identifier
\* in an unmonitored set, in memory or in the state file, is unmonitored
\* upstream.
C8_TrackedAreUnmonitoredUpstream ==
    TrackedAreUnmonitored(state) /\ TrackedAreUnmonitored(load_state(state_file))

\* ------------------------------------------------------------------ C9
\* episodes of the library with a file, in a season
EpisodesWithFiles(sid, sn) ==
    {e \in EpisodeIds : SeriesOf(e) = sid /\ SeasonOf(e) = sn
                        /\ episode_kind[e] # "ABSENT"}

\* C9: the season-level unmonitor (a season PUT, or its dry-run report) is
\* performed for a season only if the season is not recorded for the series,
\* is monitored upstream, has an episode with a file, and every episode of
\* it with a file is in the list of unmonitored episodes.
C9_SeasonUnmonitorOnlyWhenAllEpisodes ==
    [][ (pc = "season_check"
            /\ (unmonitored_seasons' > unmonitored_seasons \/ NewPuts # << >>)) =>
            /\ ~In(season_number,
                   GetOrEmpty(state.sonarr.unmonitored_seasons, IntKey(series_id)))
            /\ ~In(season_number,
                   GetOrEmpty(state.sonarr.unmonitored_seasons, StrKey(series_id)))
            /\ season_monitored[series_id][season_number]
            /\ EpisodesWithFiles(series_id, season_number) # {}
            /\ EpisodesWithFiles(series_id, season_number)
                  \subseteq Range(state.sonarr.unmonitored_episode_ids)
      ]_vars

\* a season PUT succeeded and the season is recorded
C9_SeasonUnmonitored ==
    \E i \in 1..Len(puts) :
        /\ puts[i].kind = "season" /\ puts[i].ok
        /\ \E sid \in SeriesIds, sn \in SeasonNumbers :
              /\ puts[i].id = SeasonId(sid, sn)
              /\ SeasonTracked(state.sonarr, sid, sn)
              /\ Cardinality(EpisodesWithFiles(sid, sn)) > 1

\* ----------------------------------------------------------------- C10
\* C10: the series-level unmonitor (a series PUT) is performed only if the
\* series is not in the list of unmonitored series, a season other than
\* season 0 has episodes with files, every such season is recorded in the
\* series' unmonitored_seasons, and that record is not empty.
C10_SeriesUnmonitorOnlyWhenAllSeasons ==
    [][ (pc = "series_check" /\ NewPuts # << >>) =>
            LET with_files == {sn \in SeasonNumbers \ {0} :
                                  EpisodesWithFiles(series_id, sn) # {}}
                tracked == GetOrEmpty(state.sonarr.unmonitored_seasons,
                                      IntKey(series_id))
            IN  /\ ~In(series_id, state.sonarr.unmonitored_ids)
                /\ with_files # {}
                /\ with_files \subseteq Range(tracked)
                /\ tracked # << >>
      ]_vars

\* ----------------------------------------------------------------- C11
\* a series with two seasons (1 and 2) of one episode with a file each
TwoSeasonsOfOne(sid) ==
    /\ EpisodesWithFiles(sid, 0) = {}
    /\ Cardinality(EpisodesWithFiles(sid, 1)) = 1
    /\ Cardinality(EpisodesWithFiles(sid, 2)) = 1

\* the episode with a file of a season that has exactly one
TheEpisode(sid, sn) == CHOOSE e \in EpisodesWithFiles(sid, sn) : TRUE

\* PUTs of the log: a successful one of the kind for the id, at position i
OkPutAt(i, kind, id) == puts[i].kind = kind /\ puts[i].id = id /\ puts[i].ok

\* while the episode of season sn is monitored and the episode of the other
\* season is not, no step unmonitors season sn or the series
C11_OneSeasonKeepsSeries ==
    \A sid \in SeriesIds : \A sn \in {1, 2} :
        (/\ TwoSeasonsOfOne(sid)
         /\ episode_monitored[TheEpisode(sid, sn)]
         /\ ~episode_monitored[TheEpisode(sid, 3 - sn)]
         /\ season_monitored[sid][sn] /\ series_monitored[sid]) =>
            (season_monitored'[sid][sn] /\ series_monitored'[sid])

\* at the end of a live scan without a failed request in which an episode of
\* the series was unmonitored and that leaves both episodes unmonitored, the
\* log holds the season's PUT and after it the series' PUT
C11_SeasonThenSeries ==
    \A sid \in SeriesIds : \A sn \in {1, 2} :
        (/\ pc = "save" /\ ~dry_run /\ scan_faults = 0
         /\ TwoSeasonsOfOne(sid)
         /\ ~episode_monitored[TheEpisode(sid, 1)]
         /\ ~episode_monitored[TheEpisode(sid, 2)]
         /\ \E k \in 1..Len(puts) : OkPutAt(k, "episode", TheEpisode(sid, sn))) =>
            \E i, j \in 1..Len(puts) :
                /\ i < j
                /\ OkPutAt(i, "season", SeasonId(sid, sn))
                /\ OkPutAt(j, "series", sid)

\* C11: for a series with two seasons of one episode with a file each: while
\* only one season's episode is unmonitored, the series is not unmonitored
\* and the season of the still monitored episode is not unmonitored; the scan
\* in which both episodes have become unmonitored performs the season
\* transition and after it the series transition.
C11_RollupOfTwoSeasons ==
    [][C11_OneSeasonKeepsSeries /\ C11_SeasonThenSeries]_vars

\* ----------------------------------------------------------------- C12
\* C12 as stated: no season-level or series-level rollup of a series begins
\* before every episode decision of the series in the scan is made: no
\* episode is still to be decided once a season was reported unmonitored,
\* and no episode PUT follows a season or series PUT.
C12_RollupAfterAllEpisodes ==
    /\ pc = "episode" => unmonitored_seasons = 0
    /\ \A i, j \in 1..Len(puts) :
          (i < j /\ puts[i].kind \in {"season", "series"}) => puts[j].kind # "episode"

\* C12 (amended): the season-level rollup of a season begins only when every
\* episode decision of that season is made, and the series-level rollup only
\* when every episode decision and season rollup of the series is made: at
\* the season check no episode of the season is left, at the series check no
\* season and no episode is left; no episode PUT of a season follows that
\* season's PUT, and no episode or season PUT follows the series PUT.
C12_RollupAfterOwnBatch ==
    /\ pc = "season_check" => episodes = << >>
    /\ pc = "series_check" => (episodes = << >> /\ seasons = << >>)
    /\ \A i, j \in 1..Len(puts) :
          (i < j /\ puts[i].kind = "season" /\ puts[j].kind = "episode") =>
              SeasonOf(puts[j].id) # SeasonOf(puts[i].id)
    /\ \A i, j \in 1..Len(puts) :
          (i < j /\ puts[i].kind = "series") => puts[j].kind \notin {"episode", "season"}

\* an episode of season 2 is unmonitored after season 1 was, and the series
\* after both
C12_EpisodeAfterEarlierSeason ==
    \E i, j, k \in 1..Len(puts) :
        /\ i < j /\ j < k
        /\ puts[i].kind = "season" /\ puts[i].ok
        /\ puts[j].kind = "episode" /\ puts[j].ok
        /\ puts[k].kind = "series" /\ puts[k].ok

\* ----------------------------------------------------------------- C13
\* C13: when the state a scan starts from records every episode with a file
\* of a season as unmonitored (and they are unmonitored upstream) while the
\* season is still monitored, because the season PUT of the earlier scan
\* failed, then a live scan in monitoring mode in which no request fails
\* unmonitors the season: at its end the season is unmonitored upstream.
C13_RollupRederived ==
    \A sid \in SeriesIds : \A sn \in SeasonNumbers :
        (/\ pc = "save" /\ monitoring_mode /\ ~dry_run /\ scan_faults = 0
         /\ EpisodesWithFiles(sid, sn) # {}
         /\ EpisodesWithFiles(sid, sn)
               \subseteq Range(LoadedState.sonarr.unmonitored_episode_ids)
         /\ \A e \in EpisodesWithFiles(sid, sn) : ~episode_monitored[e]
         /\ series_monitored[sid]) =>
            ~season_monitored[sid][sn]

C15_SeasonZero ==
    [][ /\ (/\ pc = "season_check" /\ pc' # "season_check" /\ season_number = 0
            /\ season_unmonitored_count > 0 /\ ~dry_run /\ faults' = faults
            /\ EpisodesWithFiles(series_id, 0)
                  \subseteq Range(state.sonarr.unmonitored_episode_ids)) =>
              /\ NewPuts = <<PutRec("season", SeasonId(series_id, 0), TRUE)>>
              /\ ~season_monitored'[series_id][0]
        /\ (/\ pc = "series_check" /\ pc' # "series_check"
            /\ unmonitored_seasons > 0 /\ ~dry_run /\ faults' = faults) =>
              LET with_files == {sn \in SeasonNumbers \ {0} :
                                    EpisodesWithFiles(series_id, sn) # {}}
                  recorded == Range(GetOrEmpty(state.sonarr.unmonitored_seasons,
                                               IntKey(series_id))) \ {0}
              IN  (NewPuts # << >>) <=> (with_files # {} /\ with_files \subseteq recorded)
      ]_vars

\* the series was unmonitored while season 0 has a file and is still
\* monitored
C15_SeriesDespiteSeasonZero ==
    \E sid \in SeriesIds : \E j \in 1..Len(puts) :
        /\ OkPutAt(j, "series", sid)
        /\ EpisodesWithFiles(sid, 0) # {}
        /\ season_monitored[sid][0]

\* ================================================================ PoolSpec
\* The program with config['concurrent'] > 1.  process_media_radarr and
\* process_series_hierarchical then run their batch as
\* "results = list(executor.map(process_fn, units))": every thread runs
\* process_movie / process_episode on the unit it took, all of them on the
\* one `state` dictionary.  A thread can be preempted between any two of its
\* steps, so each "if id not in list" and the "list.append(id)" under it are
\* two steps.  Without monitoring mode the movie batch shares the dictionary
\* that partial() was given; it is dropped when the batch ends.
PoolBatch == pc \in {"radarr_loop", "episode"} /\ max_workers > 1
Service == IF pc = "radarr_loop" THEN "radarr" ELSE "sonarr"
ProcessedList(svc) == IF svc = "radarr" THEN "processed_ids" ELSE "processed_episode_ids"
UnmonitoredList(svc) ==
    IF svc = "radarr" THEN "unmonitored_ids" ELSE "unmonitored_episode_ids"

\* the files from the first one on which the unit's function acts: a match,
\* or a path on which get_release_group raises
RECURSIVE FilesFrom(_)
FilesFrom(files) ==
    IF files = << >> THEN << >>
    ELSE IF Head(files) = NullPath \/ FileMatches(Head(files)) THEN files
    ELSE FilesFrom(Tail(files))

\* what the function has left to do once it looks at `files`: the lists it
\* tests and appends to, the PUT, the files after the match, and the value
\* returned if this runs to its end
FilePlan(svc, files) ==
    LET fs == FilesFrom(files)
    IN  IF fs = << >>
        THEN [todo |-> <<ProcessedList(svc)>>, rest |-> << >>, ret |-> FALSE,
              raised |-> FALSE]
        ELSE IF Head(fs) = NullPath
        THEN \* get_release_group raises; the handler returns False
             [todo |-> << >>, rest |-> << >>, ret |-> FALSE, raised |-> TRUE]
        ELSE [todo |-> <<ProcessedList(svc), "PUT", UnmonitoredList(svc)>>,
              rest |-> Tail(fs), ret |-> TRUE, raised |-> FALSE]

\* process_movie / process_episode from its first test to its first list
\* operation.  files: what get_file_details returned
UnitPlan(svc, unit, files, st) ==
    IF In(unit.id, st[svc][UnmonitoredList(svc)])
    THEN [todo |-> << >>, rest |-> << >>, ret |-> FALSE, raised |-> FALSE]
    ELSE IF ~unit.monitored
    THEN [todo |-> <<UnmonitoredList(svc), ProcessedList(svc)>>, rest |-> << >>,
          ret |-> FALSE, raised |-> FALSE]
    ELSE IF svc = "sonarr" /\ (~unit.hasFile \/ unit.episodeFileId = 0)
    THEN [todo |-> <<ProcessedList(svc)>>, rest |-> << >>, ret |-> FALSE,
          raised |-> FALSE]
    ELSE FilePlan(svc, files)

\* TRUE when the function reaches get_file_details for the unit
UnitNeedsFiles(svc, unit, st) ==
    IF svc = "radarr" THEN MovieNeedsFiles(unit, st.radarr)
    ELSE EpisodeNeedsFile(unit, st.sonarr)

UnitKey(svc, unit) == <<IF svc = "radarr" THEN "movie" ELSE "episode", unit.id>>

UnitFiles(svc, unit, ok) ==
    IF svc = "radarr" THEN movie_file_details(unit.id, ok)
    ELSE episode_file_details(unit.id, ok)

PoolInit == InitOf(NumWorkers)

PoolFrame ==
    /\ scan_faults' = scan_faults + (faults' - faults)
    /\ UNCHANGED <<movie_files, episode_kind, season_monitored, series_monitored,
                   configs, retry, extractor, dry_run, monitoring_mode, state_file, backup_file, series_list,
                   series_id, seasons, season_number, unmonitored_seasons, scans,
                   failed_units>>

\* executor.map hands the next unit to a free thread
PoolTake(w) ==
    /\ PoolBatch
    /\ workers[w].pc = "idle"
    /\ IF Service = "radarr"
       THEN /\ movies # << >>
            /\ workers' = [workers EXCEPT ![w] = [IdleWorker EXCEPT !.pc = "start",
                                                                    !.ep = Head(movies)]]
            /\ movies' = Tail(movies)
            /\ UNCHANGED episodes
       ELSE /\ episodes # << >>
            /\ workers' = [workers EXCEPT ![w] = [IdleWorker EXCEPT !.pc = "start",
                                                                    !.ep = Head(episodes)]]
            /\ episodes' = Tail(episodes)
            /\ UNCHANGED movies
    /\ UNCHANGED <<state, puts, faults, movie_monitored, episode_monitored,
                   unmonitored_count, season_unmonitored_count, pc>>
    /\ UNCHANGED errors
    /\ UNCHANGED reports
    /\ PoolFrame

\* the function up to its first list operation: the skip of a tracked unit,
\* then the reads that decide what is left to do
PoolStart(w) ==
    /\ workers[w].pc = "start"
    /\ \E getok \in BOOLEAN :
          LET unit == workers[w].ep
              plan == UnitPlan(Service, unit, UnitFiles(Service, unit, getok), state)
          IN  /\ ~getok => UnitNeedsFiles(Service, unit, state)
              /\ faults + Bit(~getok) <= MaxFaults
              /\ faults' = faults + Bit(~getok)
              /\ workers' = [workers EXCEPT ![w] =
                    [@ EXCEPT !.pc = "run", !.todo = plan.todo, !.rest = plan.rest,
                              !.ret = plan.ret]]
              /\ errors' = IF ~getok \/ plan.raised
                           THEN errors \cup {UnitKey(Service, unit)} ELSE errors
    /\ UNCHANGED <<state, puts, movies, episodes, movie_monitored, episode_monitored,
                   unmonitored_count, season_unmonitored_count, pc>>
    /\ UNCHANGED reports
    /\ PoolFrame

\* "if item['id'] not in state[<service>].get(<list>, [])"
PoolTest(w) ==
    /\ workers[w].pc = "run"
    /\ workers[w].todo # << >>
    /\ Head(workers[w].todo) # "PUT"
    /\ workers' = [workers EXCEPT ![w] =
          [@ EXCEPT !.pc = "append",
                    !.found = In(workers[w].ep.id, state[Service][Head(workers[w].todo)])]]
    /\ UNCHANGED <<state, puts, faults, movies, episodes, movie_monitored,
                   episode_monitored, unmonitored_count, season_unmonitored_count, pc>>
    /\ UNCHANGED errors
    /\ UNCHANGED reports
    /\ PoolFrame

\* "state[<service>][<list>].append(item['id'])" when the test found nothing
PoolAppend(w) ==
    /\ workers[w].pc = "append"
    /\ LET list == Head(workers[w].todo)
       IN  state' = IF workers[w].found THEN state
                    ELSE [state EXCEPT ![Service][list] = Append(@, workers[w].ep.id)]
    /\ workers' = [workers EXCEPT ![w] = [@ EXCEPT !.pc = "run", !.todo = Tail(@),
                                                   !.found = FALSE]]
    /\ UNCHANGED <<puts, faults, movies, episodes, movie_monitored, episode_monitored,
                   unmonitored_count, season_unmonitored_count, pc>>
    /\ UNCHANGED errors
    /\ UNCHANGED reports
    /\ PoolFrame

\* "if unmonitor_media(config, item):" / "if unmonitor_episode(config,
\* episode):".  After a failure process_movie goes on with the next file and
\* process_episode falls through to its last test-and-append.
PoolPut(w) ==
    /\ workers[w].pc = "run"
    /\ workers[w].todo # << >>
    /\ Head(workers[w].todo) = "PUT"
    /\ \E ok \in BOOLEAN :
          LET unit == workers[w].ep
              u == IF Service = "radarr" THEN unmonitor_media(dry_run, ok)
                   ELSE unmonitor_episode(dry_run, ok)
              kind == IF Service = "radarr" THEN "movie" ELSE "episode"
              sent == IF u.put THEN <<PutRec(kind, unit.id, ok)>> ELSE << >>
              next == FilePlan(Service, workers[w].rest)
          IN  /\ ~ok => u.put
              /\ faults + Bit(~ok) <= MaxFaults
              /\ faults' = faults + Bit(~ok)
              /\ puts' = puts \o sent
              /\ movie_monitored' =
                    IF AnyOk(sent) /\ Service = "radarr"
                    THEN [movie_monitored EXCEPT ![unit.id] = FALSE] ELSE movie_monitored
              /\ episode_monitored' =
                    IF AnyOk(sent) /\ Service = "sonarr"
                    THEN [episode_monitored EXCEPT ![unit.id] = FALSE]
                    ELSE episode_monitored
              /\ workers' = [workers EXCEPT ![w] =
                    IF u.ret THEN [@ EXCEPT !.todo = Tail(@)]
                    ELSE [@ EXCEPT !.todo = next.todo, !.rest = next.rest,
                                   !.ret = next.ret]]
              /\ errors' = IF ~u.ret /\ next.raised
                           THEN errors \cup {UnitKey(Service, unit)} ELSE errors
    /\ UNCHANGED <<state, movies, episodes, unmonitored_count,
                   season_unmonitored_count, pc>>
    /\ UNCHANGED reports
    /\ PoolFrame

\* the function returns; its result joins "results"
PoolReturn(w) ==
    /\ workers[w].pc = "run"
    /\ workers[w].todo = << >>
    /\ IF Service = "radarr"
       THEN /\ unmonitored_count' = unmonitored_count + Bit(workers[w].ret)
            /\ UNCHANGED season_unmonitored_count
       ELSE /\ season_unmonitored_count' = season_unmonitored_count + Bit(workers[w].ret)
            /\ UNCHANGED unmonitored_count
    /\ workers' = [workers EXCEPT ![w] = IdleWorker]
    /\ UNCHANGED <<state, puts, faults, movies, episodes, movie_monitored,
                   episode_monitored, pc>>
    /\ UNCHANGED errors
    /\ Report(IF Service = "radarr" THEN "movie" ELSE "episode", workers[w].ep.id,
              workers[w].ret)
    /\ PoolFrame

\* the movie batch waits for its threads, an episode batch does not
PoolShutDown_NoWait ==
    pc = "radarr_loop" => \A w \in DOMAIN workers : workers[w].pc = "idle"

\* leaving "with ThreadPoolExecutor(...) as executor:" waits for the threads
\* (shutdown(wait=True)); list(executor.map(...)) has had every result
PoolShutDown == \A w \in DOMAIN workers : workers[w].pc = "idle"

\* the "with" block ends once every unit has been processed:
\* "unmonitored_count = results.count(True)"
PoolJoin ==
    /\ PoolBatch
    /\ movies = << >> \/ Service = "sonarr"
    /\ episodes = << >> \/ Service = "radarr"
    /\ PoolShutDown
    /\ pc' = IF Service = "radarr" THEN AfterRadarr ELSE "season_check"
    /\ state' = IF Service = "radarr" /\ ~monitoring_mode
                THEN [state EXCEPT !.radarr = EmptyRadarr] ELSE state
    /\ UNCHANGED <<puts, faults, movies, episodes, movie_monitored, episode_monitored,
                   unmonitored_count, season_unmonitored_count, workers>>
    /\ UNCHANGED errors
    /\ UNCHANGED reports
    /\ PoolFrame

PoolStep ==
    \/ \E w \in DOMAIN workers : PoolTake(w)
    \/ \E w \in DOMAIN workers : PoolStart(w)
    \/ \E w \in DOMAIN workers : PoolTest(w)
    \/ \E w \in DOMAIN workers : PoolAppend(w)
    \/ \E w \in DOMAIN workers : PoolPut(w)
    \/ \E w \in DOMAIN workers : PoolReturn(w)
    \/ PoolJoin

PoolNext ==
    \/ StartScan
    \/ FetchMovies
    \/ FetchSeries
    \/ BeginSeries
    \/ NextSeason
    \/ CheckSeason
    \/ CheckSeries
    \/ FinishScan
    \/ PoolStep

PoolSpec == PoolInit /\ [][PoolNext]_vars

\* ================================================================ BatchSpec
\* the program with either setting of config['concurrent']
BatchInit == Init \/ PoolInit

BatchNext == Next \/ PoolStep

BatchSpec == BatchInit /\ [][BatchNext]_vars

\* the threads that have made a membership test and not yet the append under it
InTestAndAppend == {w \in DOMAIN workers : workers[w].pc = "append"}

\* C16: no two workers of a batch are ever inside a test-and-append step on
\* the shared state at the same time
C16_TestAndAppendExclusive == Cardinality(InTestAndAppend) <= 1

\* ------------------------------------------------------------------ C17
\* what a restart would load from the state file right now
OnDisk == load_state(state_file)

\* the transition a successful PUT of this scan made is in the state st
Recorded(st, p) ==
    IF p.kind = "episode" THEN In(p.id, st.sonarr.unmonitored_episode_ids)
    ELSE IF p.kind = "season"
    THEN \E k \in DOMAIN st.sonarr.unmonitored_seasons :
            k[2] = SeriesOf(p.id) /\ In(SeasonOf(p.id), st.sonarr.unmonitored_seasons[k])
    ELSE IF p.kind = "series" THEN In(p.id, st.sonarr.unmonitored_ids)
    ELSE In(p.id, st.radarr.unmonitored_ids)

\* a season or series rollup is about to be evaluated
RollupDue ==
    \/ pc = "season_check" /\ season_unmonitored_count > 0
    \/ pc = "series_check" /\ unmonitored_seasons > 0

\* C17: in monitoring mode, whenever the next rollup level is about to be
\* evaluated, every transition of the scan that succeeded remotely is
\* already in the state file, so that a crash at that point loses none
C17_DurableBeforeRollup ==
    (monitoring_mode /\ RollupDue) =>
        \A i \in 1..Len(puts) : puts[i].ok => Recorded(OnDisk, puts[i])

\* ================================================================ StopSpec
\* Ctrl-C while process_media runs: KeyboardInterrupt is not an Exception, so
\* no "except Exception" of the scan catches it; it leaves process_media
\* before "if monitoring_mode: save_state(state)" and reaches "except
\* KeyboardInterrupt: ... break" of run_monitor_loop (or ends a one-shot run).
Interrupt ==
    /\ pc \notin {"idle", "stopped"}
    /\ pc' = "stopped"
    /\ UNCHANGED <<remote, configs, retry, extractor, dry_run, monitoring_mode, state, state_file, backup_file,
                   movies, unmonitored_count, series_list, series_id, seasons,
                   season_number, episodes, season_unmonitored_count,
                   unmonitored_seasons, puts, scans, faults, scan_faults,
                   failed_units, errors, workers, reports>>

StopNext == Next \/ Interrupt

StopSpec == Init /\ [][StopNext]_vars

\* ------------------------------------------------------------------ C18
\* C18: once a batch of the monitoring loop was interrupted by the user, no
\* further remote mutation is sent and every transition the scan had made
\* remotely by then is in the state file
C18_InterruptPersists ==
    /\ [][pc = "stopped" => puts' = puts]_vars
    /\ [](pc = "stopped" /\ monitoring_mode =>
            \A i \in 1..Len(puts) : puts[i].ok => Recorded(OnDisk, puts[i]))

\* ------------------------------------------------------------------ C19
\* the three processed lists and the four unmonitored collections of a state
ProcessedOf(st) ==
    <<st.radarr.processed_ids, st.sonarr.processed_ids, st.sonarr.processed_episode_ids>>
UnmonitoredOf(st) ==
    <<st.radarr.unmonitored_ids, st.sonarr.unmonitored_ids,
      st.sonarr.unmonitored_episode_ids, st.sonarr.unmonitored_seasons>>

\* C19: a monitoring scan starts from the loaded state with every unmonitored
\* collection exactly as loaded; if it starts from anything else than the
\* loaded state (a forced full scan), then the processed movie ids, series
\* ids and episode ids are all empty
C19_ForcedScanClearsProcessedOnly ==
    [][(pc = "idle" /\ monitoring_mode') =>
          /\ UnmonitoredOf(state') = UnmonitoredOf(load_state(state_file))
          /\ state' # load_state(state_file) =>
                ProcessedOf(state') = <<<< >>, << >>, << >>>>]_vars

\* a forced full scan has just cleared a loaded state that held processed
\* episodes and unmonitored episodes
C19_ForcedClearOfLoadedState ==
    /\ pc = "sonarr_fetch" /\ monitoring_mode
    /\ LoadedState.sonarr.processed_episode_ids # << >>
    /\ LoadedState.sonarr.unmonitored_episode_ids # << >>
    /\ LoadedState.sonarr.processed_ids # << >>
    /\ state # LoadedState
    /\ state = ForceFullScan(LoadedState)

\* ------------------------------------------------------------------ C20
\* C20: a scan whose save of the state fails does not end like a successful
\* one: process_media does not return normally to its caller
C20_SaveFailureIsFatal ==
    [][(pc = "save" /\ monitoring_mode /\ faults' # faults) => pc' # "idle"]_vars

\* ------------------------------------------------------------------ C21
\* the list of the running scan's state that holds the unmonitored units of
\* the kind of u
UnmonitoredOfKind(u) ==
    IF u[1] = "movie" THEN state.radarr.unmonitored_ids
    ELSE state.sonarr.unmonitored_episode_ids

\* a PUT for the unit u succeeded in this scan
OkPutAtAny(u) == \E i \in 1..Len(puts) : OkPutAt(i, u[1], u[2])

\* no unit is waiting in a batch that is not running
BatchesDrained ==
    /\ pc # "radarr_loop" => movies = << >>
    /\ pc # "episode" => episodes = << >>
    /\ ~PoolBatch => \A w \in DOMAIN workers : workers[w].pc = "idle"

\* C21: an error met while deciding a unit (a failed read of its files, or an
\* exception raised in its evaluation) never aborts the batch: the scan is
\* never aborted, a batch ends only when every unit of it has been taken and
\* evaluated, and the unit with the error gets no successful PUT and no entry
\* in the unmonitored list; for movies and episodes, with one thread or more
C21_ErrorKeepsBatch ==
    /\ pc # "aborted"
    /\ BatchesDrained
    /\ \A u \in errors :
          /\ ~OkPutAtAny(u)
          /\ ~In(u[2], UnmonitoredOfKind(u))

\* the first movie's evaluation raised and the second movie of the batch was
\* unmonitored after it
C21_NextUnitAfterError ==
    /\ <<"movie", 1>> \in errors
    /\ movie_files[1] = <<NullPath>>
    /\ \E i \in 1..Len(puts) : puts[i] = PutRec("movie", 2, TRUE)

\* ------------------------------------------------------------------ C22
\* C22: within one scan no unit is sent more than one unmonitor PUT
C22_OnePutPerUnit ==
    \A i, j \in 1..Len(puts) :
        (puts[i].kind = puts[j].kind /\ puts[i].id = puts[j].id) => i = j

\* ------------------------------------------------------------------ C23
\* what process_movie / process_episode gives for a unit it skips at its
\* first test
MovieSkipped(item, rad) ==
    \A files \in MovieFileLists, nfail \in 0..MaxFaults :
        process_movie(item, files, rad, dry_run, nfail)
            = [radarr |-> rad, ret |-> FALSE, puts |-> << >>, raised |-> FALSE]
EpisodeSkipped(ep, son) ==
    \A files \in {<< >>, <<"GRP">>, <<"OTH">>, <<NullPath>>}, ok \in BOOLEAN :
        process_episode(ep, files, son, dry_run, ok)
            = [sonarr |-> son, ret |-> FALSE, puts |-> << >>, raised |-> FALSE]

\* C23: when a unit that is not in the unmonitored list and is already
\* unmonitored upstream is evaluated, it is added to the unmonitored list of
\* the ProcessingState, no request of any kind is sent, and with the resulting
\* state any evaluation of the unit is skipped at the first test
C23_UpstreamUnmonitoredReconciled ==
    [][/\ (/\ pc = "radarr_loop" /\ monitoring_mode
           /\ ~Head(movies).monitored
           /\ ~In(Head(movies).id, state.radarr.unmonitored_ids)) =>
              /\ In(Head(movies).id, state'.radarr.unmonitored_ids)
              /\ puts' = puts /\ faults' = faults
              /\ MovieSkipped(Head(movies), state'.radarr)
       /\ (/\ pc = "episode"
           /\ ~Head(episodes).monitored
           /\ ~In(Head(episodes).id, state.sonarr.unmonitored_episode_ids)) =>
              /\ In(Head(episodes).id, state'.sonarr.unmonitored_episode_ids)
              /\ puts' = puts /\ faults' = faults
              /\ EpisodeSkipped(Head(episodes), state'.sonarr)]_vars

\* a live first scan has recorded, without any PUT, an episode that was
\* already unmonitored upstream
C23_EpisodeReconciled ==
    /\ scans = 1 /\ ~dry_run /\ puts = << >>
    /\ \E e \in EpisodeIds : In(e, state.sonarr.unmonitored_episode_ids)

\* ------------------------------------------------------------------ C24
\* no file of the movie gives a release group that is a target: the movie
\* has no file, or every file has no group or another group
NoTargetFile(m) ==
    \A i \in 1..Len(movie_files[m]) :
        movie_files[m][i] \in {"", "OTH"}

\* C24: evaluating a monitored unit that is not tracked as unmonitored and
\* that has no file, no release group or a release group outside the target
\* groups adds it to the processed list, does not add it to the unmonitored
\* list and sends no PUT
C24_NonTargetOnlyProcessed ==
    [][/\ (/\ pc = "radarr_loop" /\ monitoring_mode
           /\ Head(movies).monitored
           /\ ~In(Head(movies).id, state.radarr.unmonitored_ids)
           /\ NoTargetFile(Head(movies).id)) =>
              /\ In(Head(movies).id, state'.radarr.processed_ids)
              /\ ~In(Head(movies).id, state'.radarr.unmonitored_ids)
              /\ puts' = puts /\ unmonitored_count' = unmonitored_count
       /\ (/\ pc = "episode"
           /\ Head(episodes).monitored
           /\ ~In(Head(episodes).id, state.sonarr.unmonitored_episode_ids)
           /\ episode_kind[Head(episodes).id] \in {"ABSENT", "", "OTH"}) =>
              /\ In(Head(episodes).id, state'.sonarr.processed_episode_ids)
              /\ ~In(Head(episodes).id, state'.sonarr.unmonitored_episode_ids)
              /\ puts' = puts
              /\ season_unmonitored_count' = season_unmonitored_count]_vars

\* a first scan has evaluated a monitored movie whose only file has no
\* release group
C24_GrouplessMovieProcessed ==
    /\ scans = 1 /\ monitoring_mode /\ pc # "idle"
    /\ \E m \in Movies :
          /\ movie_files[m] = <<"">> /\ movie_monitored[m]
          /\ In(m, state.radarr.processed_ids)
          /\ ~In(m, state.radarr.unmonitored_ids)

\* ================================================================ LoadSpec
\* load_state on the files it can find, then the first uses process_media
\* makes of what it returned.  The content of a file that parses is a JSON
\* object: a full state as save_state writes it, or one that lacks sections
\* or keys of sections (written by an older version, or by hand).
FullSample ==
    [last_scan |-> 1,
     radarr |-> [processed_ids |-> <<1>>, unmonitored_ids |-> <<1>>],
     sonarr |-> [processed_ids |-> <<1>>, processed_episode_ids |-> <<111>>,
                 unmonitored_ids |-> << >>, unmonitored_episode_ids |-> <<111>>,
                 unmonitored_seasons |-> JsonSeasons(Put(EmptyDict, IntKey(1), <<1>>))]]

SectionNames == {"radarr", "sonarr"}
KeyNames ==
    {"processed_ids", "processed_episode_ids", "unmonitored_ids",
     "unmonitored_episode_ids", "unmonitored_seasons"}

\* the dictionary d without the keys outside `keys`
Keep(d, keys) == [k \in (DOMAIN d) \cap keys |-> d[k]]

FileContents ==
    {[k \in tops |-> IF k = "last_scan" THEN FullSample.last_scan
                     ELSE Keep(FullSample[k], keys)] :
        tops \in SUBSET {"last_scan", "radarr", "sonarr"}, keys \in SUBSET KeyNames}

StateFiles ==
    {[status |-> "absent", content |-> EmptyState]}
    \cup {[status |-> st, content |-> c] :
            st \in {"ok", "unreadable", "corrupt"}, c \in FileContents}

LoadInit ==
    /\ configs \in ConfigChoices
    /\ movie_files = PlainMovies.files
    /\ movie_monitored = PlainMovies.monitored
    /\ episode_kind = PlainSeries.kind
    /\ episode_monitored = PlainSeries.monitored
    /\ season_monitored = PlainSeries.seasons
    /\ series_monitored = [sid \in SeriesIds |-> TRUE]
    /\ dry_run = FALSE
    /\ monitoring_mode = FALSE
    /\ state = EmptyState
    /\ state_file \in StateFiles
    /\ backup_file = [status |-> "absent", content |-> EmptyState]
    /\ pc = "idle"
    /\ movies = << >>
    /\ unmonitored_count = 0
    /\ series_list = << >>
    /\ series_id = 0
    /\ seasons = << >>
    /\ season_number = -1
    /\ episodes = << >>
    /\ season_unmonitored_count = 0
    /\ unmonitored_seasons = 0
    /\ puts = << >>
    /\ scans = 0
    /\ faults = 0
    /\ scan_faults = 0
    /\ failed_units = {}
    /\ errors = {}
    /\ reports = << >>
    /\ file_path = << >>
    /\ attempt = 0
    /\ retry_delay = 2
    /\ sleeps = << >>
    /\ outcomes = << >>
    /\ release_group = << >>
    /\ workers = [w \in 1..1 |-> IdleWorker]

LoadFrame ==
    UNCHANGED <<remote, configs, retry, extractor, state_file, backup_file, locals, puts, scans, faults,
                scan_faults, failed_units, errors, workers, reports>>

\* "state = load_state() if monitoring_mode else None" in monitoring mode
LoadState ==
    /\ pc = "idle"
    /\ state' = load_state(state_file)
    /\ monitoring_mode' = TRUE
    /\ dry_run' \in BOOLEAN
    /\ pc' = "loaded"
    /\ LoadFrame

\* bool(d) of a dictionary, and "state.get('last_scan')" as a condition
Truthy(d) == DOMAIN d # {}
HasLastScan(st) == "last_scan" \in DOMAIN st /\ st.last_scan # 0

\* a KeyError leaves process_media before the first unit is evaluated:
\* process_media_radarr calls fetch_new_media, which reads state['radarr'],
\* when the state is not empty and has a last scan; process_media_sonarr
\* reads state['sonarr'] at once
ScanRaises(st, cfgs) ==
    \/ "radarr" \in cfgs /\ Truthy(st) /\ HasLastScan(st) /\ "radarr" \notin DOMAIN st
    \/ "sonarr" \in cfgs /\ "sonarr" \notin DOMAIN st

\* process_media without --force-full-scan, up to the first batch
BeginScan ==
    /\ pc = "loaded"
    /\ pc' = IF ScanRaises(state, configs) THEN "aborted" ELSE "scanning"
    /\ UNCHANGED <<state, monitoring_mode, dry_run>>
    /\ LoadFrame

LoadNext == LoadState \/ BeginScan

LoadSpec == LoadInit /\ [][LoadNext]_vars

\* ------------------------------------------------------------------ C25
\* the file holds no state that can be used: it cannot be read or parsed, or
\* the object in it lacks a per-service section
InvalidFile(file) ==
    file.status \in {"unreadable", "corrupt"}
    \/ (file.status = "ok" /\ ~(SectionNames \subseteq DOMAIN file.content))

\* C25: loading a file that is unreadable, not valid JSON or structurally
\* invalid gives the default empty ProcessingState, and starting a scan on
\* what was loaded raises no error
C25_InvalidFileLoadsDefault ==
    /\ (pc = "loaded" /\ InvalidFile(state_file)) => state = EmptyState
    /\ pc # "aborted"

\* ------------------------------------------------------------------ C26
\* a file written by an older version: both sections, not every key
OldVersionFile(file) ==
    /\ file.status = "ok"
    /\ SectionNames \subseteq DOMAIN file.content

SectionKeys(section) ==
    IF section = "radarr" THEN {"processed_ids", "unmonitored_ids"} ELSE KeyNames

\* C26: after loading a file of an older version every key of both sections
\* exists; a key the file lacked is empty, a key it had has the file's value
C26_MissingKeysDefaulted ==
    (pc = "loaded" /\ OldVersionFile(state_file)) =>
        \A section \in SectionNames : \A key \in SectionKeys(section) :
            /\ key \in DOMAIN state[section]
            /\ state[section][key] =
                  IF key \in DOMAIN state_file.content[section]
                  THEN state_file.content[section][key]
                  ELSE IF key = "unmonitored_seasons" THEN EmptyDict ELSE << >>

\* ================================================================ SaveSpec
\* The program with save_state taken one file operation at a time: the copy
\* to the backup, open(state_file, 'w'), which truncates the file, and
\* json.dump, which writes it.  Each operation may raise; save_state's
\* handler logs the exception and process_media returns.
Truncated == [status |-> "corrupt", content |-> EmptyState]

\* a step of save_state that does not leave it
SaveFrame ==
    UNCHANGED <<remote, configs, retry, extractor, dry_run, monitoring_mode, locals, puts, scans,
                scan_faults, failed_units, errors, workers, reports>>

\* without monitoring mode there is nothing to save
SaveSkip ==
    /\ pc = "save"
    /\ ~monitoring_mode
    /\ state' = EmptyState
    /\ failed_units' = {}
    /\ UNCHANGED <<faults, state_file, backup_file>>
    /\ EndOfScan

\* os.makedirs and "if os.path.exists(state_file): shutil.copy2(...)".
\* f: "ok"; "early": raised before the copy wrote anything; "write": raised
\* while the copy was being written
SaveBackup ==
    /\ pc = "save"
    /\ monitoring_mode
    /\ \E f \in {"ok", "early", "write"} :
          /\ f = "write" => state_file.status # "absent"
          /\ faults + Bit(f # "ok") <= MaxFaults
          /\ faults' = faults + Bit(f # "ok")
          /\ backup_file' = IF f = "write" THEN Truncated
                            ELSE backup_state(state_file, backup_file, f)
          /\ IF f = "ok"
             THEN /\ pc' = "save_open"
                  /\ UNCHANGED failed_units
                  /\ SaveFrame
             ELSE /\ failed_units' = {}
                  /\ EndOfScan
    /\ UNCHANGED <<state, state_file>>

\* "state['last_scan'] = datetime.now().isoformat()" and
\* "open(state_file, 'w')"
SaveOpen ==
    /\ pc = "save_open"
    /\ state' = [state EXCEPT !.last_scan = scans]
    /\ \E ok \in BOOLEAN :
          /\ faults + Bit(~ok) <= MaxFaults
          /\ faults' = faults + Bit(~ok)
          /\ IF ok
             THEN /\ state_file' = Truncated
                  /\ pc' = "save_write"
                  /\ UNCHANGED failed_units
                  /\ SaveFrame
             ELSE /\ UNCHANGED state_file
                  /\ failed_units' = {}
                  /\ EndOfScan
    /\ UNCHANGED backup_file

\* "json.dump(state, f, indent=2)" and the end of save_state
SaveWrite ==
    /\ pc = "save_write"
    /\ \E ok \in BOOLEAN :
          /\ faults + Bit(~ok) <= MaxFaults
          /\ faults' = faults + Bit(~ok)
          /\ state_file' = IF ok THEN [status |-> "ok", content |-> JsonDump(state)]
                           ELSE Truncated
          /\ failed_units' = IF ok THEN FailedUnits(puts) ELSE {}
    /\ UNCHANGED <<state, backup_file>>
    /\ EndOfScan

SaveNext ==
    \/ StartScan
    \/ FetchMovies
    \/ ProcessMovie
    \/ FetchSeries
    \/ BeginSeries
    \/ NextSeason
    \/ ProcessEpisode
    \/ CheckSeason
    \/ CheckSeries
    \/ SaveSkip
    \/ SaveBackup
    \/ SaveOpen
    \/ SaveWrite

SaveSpec == Init /\ [][SaveNext]_vars

\* ------------------------------------------------------------------ C27
\* the file holds a complete state
Complete(file) == file.status = "ok"

\* C27: a save that finds a state file copies it to the backup before it
\* opens the state file for writing, and from the moment the state file is
\* opened at least one of state file and backup holds a complete state
C27_BackupBeforeWrite ==
    [][(pc = "save_open" /\ state_file.status # "absent") =>
          /\ backup_file = state_file
          /\ Complete(state_file') \/ Complete(backup_file')]_vars

\* the same for a save that finds a complete state file
C27_CompleteFileBackedUp ==
    [][(pc = "save_open" /\ Complete(state_file)) =>
          /\ backup_file = state_file
          /\ Complete(state_file') \/ Complete(backup_file')]_vars

\* a complete state file has been backed up and is being rewritten
C27_RewritingBackedUpFile ==
    /\ pc = "save_write"
    /\ state_file = Truncated
    /\ Complete(backup_file)
    /\ backup_file.content.last_scan # 0

\* ------------------------------------------------------------------ C28
\* the unmonitor action of the unit u was confirmed in this scan: its PUT
\* succeeded or, in a dry run, the simulated action was reported (the unit
\* is monitored upstream and the scan has put it on the unmonitored list)
Confirmed(u) ==
    IF dry_run
    THEN /\ IF u[1] = "movie" THEN movie_monitored[u[2]] ELSE episode_monitored[u[2]]
         /\ In(u[2], UnmonitoredOfKind(u))
         /\ ~In(u[2], IF u[1] = "movie" THEN LoadedState.radarr.unmonitored_ids
                      ELSE LoadedState.sonarr.unmonitored_episode_ids)
    ELSE OkPutAtAny(u)

ConfirmedMovies == {m \in Movies : Confirmed(<<"movie", m>>)}
ConfirmedEpisodes(sid, sn) ==
    {e \in EpisodeIds : SeriesOf(e) = sid /\ SeasonOf(e) = sn /\ Confirmed(<<"episode", e>>)}

\* C28: when a batch has ended, sequential or on the pool, the count it
\* returns is the number of its units whose unmonitor action was confirmed;
\* skipped, kept and reconciled units and units whose PUT failed are not
\* counted.  (A dry run without monitoring mode keeps no list of the movies
\* it reported, so its movie count is left out.)
C28_CountIsConfirmedActions ==
    /\ (/\ "radarr" \in configs
        /\ pc \notin {"idle", "radarr_fetch", "radarr_loop"}
        /\ dry_run => monitoring_mode)
          => unmonitored_count = Cardinality(ConfirmedMovies)
    /\ pc = "season_check"
          => season_unmonitored_count =
                Cardinality(ConfirmedEpisodes(series_id, season_number))

\* a batch on the pool that ended with one confirmed episode and one episode
\* whose PUT failed
C28_PoolCountsConfirmedOnly ==
    /\ pc = "season_check"
    /\ max_workers > 1
    /\ season_unmonitored_count = 1
    /\ \E i \in 1..Len(puts) : puts[i].kind = "episode" /\ ~puts[i].ok

\* ------------------------------------------------------------------ C29
\* the second scan is at its end; the first was a dry run and the second is
\* live, both outside monitoring mode, so that both started from the same
\* library and the same (empty) state, and no request of either failed
DryThenLive ==
    /\ Len(reports) = 2
    /\ pc = "save"
    /\ faults = 0
    /\ reports[1].dry_run /\ ~reports[1].monitoring_mode
    /\ ~reports[2].dry_run /\ ~reports[2].monitoring_mode

ReportedOfKind(i, kind) == {u \in reports[i].units : u[1] = kind}

\* C29: a dry-run scan reports as unmonitored the same movies, episodes,
\* seasons and series as a live scan of the same library and state in which
\* every request succeeds
C29_DryRunReportsAsLive == DryThenLive => reports[1].units = reports[2].units

\* the same for the movies, episodes and seasons only
C29_DryRunReportsLeavesAsLive ==
    DryThenLive => \A kind \in {"movie", "episode", "season"} :
                      ReportedOfKind(1, kind) = ReportedOfKind(2, kind)

\* ============================================================= ExtractSpec
\* get_release_group on file names.  A name is the last component of the
\* path (what os.path.basename returns), a sequence of characters: three
\* letters, the dot, the hyphen and the space.  The letters spell "web", the
\* one entry of common_groups that names over these characters can hold.
MaxNameLen == 6

Alnum == {"w", "e", "b"}
Chars == Alnum \cup {".", "-", " "}
FileNames == UNION {[1..n -> Chars] : n \in 1..MaxNameLen}

\* the return value None
None == <<"None">>

Suffix(s, i) == SubSeq(s, i, Len(s))
\* every character of s from index i on is in class
AllIn(s, i, class) == \A j \in i..Len(s) : s[j] \in class
Least(S) == CHOOSE i \in S : \A j \in S : i <= j

\* os.path.splitext(filename)[0]: the name up to its last dot, when a
\* character other than a dot comes before that dot
splitext(name) ==
    LET dots == {i \in 1..Len(name) : name[i] = "."}
        last == CHOOSE i \in dots : \A j \in dots : j <= i
    IN  IF dots # {} /\ \E i \in 1..(last - 1) : name[i] # "."
        THEN SubSeq(name, 1, last - 1) ELSE name

\* str.rstrip('.')
RECURSIVE rstrip(_)
rstrip(s) ==
    IF s # << >> /\ s[Len(s)] = "." THEN rstrip(SubSeq(s, 1, Len(s) - 1)) ELSE s

\* re.search of "<sep>(<class>{least,})$": the indices at which the group of
\* a match can start, the separator being the character before it.  re.search
\* returns the match that starts leftmost.
GroupStarts(b, sep, class, least) ==
    {g \in 2..Len(b) : /\ b[g - 1] = sep
                       /\ Len(b) - g + 1 >= least
                       /\ AllIn(b, g, class)}

\* r'-([A-Za-z0-9._-]+)$'
HyphenStarts(b) == GroupStarts(b, "-", Alnum \cup {".", "-"}, 1)
\* r'\.([A-Za-z0-9_-]{2,})$'
DotStarts(b) == GroupStarts(b, ".", Alnum \cup {"-"}, 2)
\* r'\.([A-Za-z0-9]{2,})$'
LiberalStarts(b) == GroupStarts(b, ".", Alnum, 2)
FallbackStarts_NoStart(b) ==
    {g \in 2..Len(b) : /\ b[g - 1] \in {".", " ", "-"}
                       /\ Len(b) - g + 1 >= 2
                       /\ AllIn(b, g, Alnum)}

\* r'(?:[\.\s\[\]\(\)\-]|^)([A-Za-z0-9]{2,})$'
FallbackStarts(b) ==
    {g \in 1..Len(b) : /\ g = 1 \/ b[g - 1] \in {".", " ", "-"}
                       /\ Len(b) - g + 1 >= 2
                       /\ AllIn(b, g, Alnum)}

\* the last index of the longest run of characters of class that starts at
\* index i (i - 1 when there is none)
RECURSIVE RunEnd(_, _, _)
RunEnd(b, i, class) ==
    IF i <= Len(b) /\ b[i] \in class THEN RunEnd(b, i + 1, class) ELSE i - 1

\* "(?: [A-Za-z0-9]+)+", greedy, after a word that ends at index e
RECURSIVE MoreWords(_, _)
MoreWords(b, e) ==
    IF e + 2 <= Len(b) /\ b[e + 1] = " " /\ b[e + 2] \in Alnum
    THEN MoreWords(b, RunEnd(b, e + 2, Alnum)) ELSE e

\* r'-\s*([A-Za-z0-9]+(?: [A-Za-z0-9]+)+)' from the hyphen at index i: the
\* first and last index of the group, last < first when there is no match
SpaceGroup(b, i) ==
    LET first == RunEnd(b, i + 1, {" "}) + 1
        word == RunEnd(b, first, Alnum)
    IN  IF word >= first /\ MoreWords(b, word) > word
        THEN <<first, MoreWords(b, word)>> ELSE <<1, 0>>

SpaceHyphens(b) ==
    {i \in 1..Len(b) : b[i] = "-" /\ SpaceGroup(b, i)[2] >= SpaceGroup(b, i)[1]}

\* r'(?:^|\W)(web)(?:$|\W)': the indices at which "web" stands as a word
CommonStarts(b) ==
    {i \in 1..(Len(b) - 2) : /\ SubSeq(b, i, i + 2) = <<"w", "e", "b">>
                             /\ i = 1 \/ b[i - 1] \notin Alnum
                             /\ i + 2 = Len(b) \/ b[i + 3] \notin Alnum}

\* the group a pattern with these group starts gives: "group.rstrip('.')" on
\* the group of the leftmost match
GroupOf(b, starts) == rstrip(Suffix(b, Least(starts)))

\* the positional patterns of the list: the group follows a hyphen or a dot
PositionalStarts(b) == IF HyphenStarts(b) # {} THEN HyphenStarts(b) ELSE DotStarts(b)
\* the liberal patterns at the end of the list
LiberalOrFallbackStarts(b) ==
    IF LiberalStarts(b) # {} THEN LiberalStarts(b) ELSE FallbackStarts(b)

\* what follows the list: common_groups, then the multi-word pattern
AfterPatterns(b) ==
    IF CommonStarts(b) # {} THEN <<"w", "e", "b">>
    ELSE IF SpaceHyphens(b) # {}
    THEN LET g == SpaceGroup(b, Least(SpaceHyphens(b))) IN SubSeq(b, g[1], g[2])
    ELSE None

\* get_release_group on a file name.  The patterns are tried in the order of
\* the list, then common_groups, then the multi-word pattern; the patterns
\* with brackets or with quality, codec or scene keywords and the other
\* entries of common_groups match no name over these characters and are
\* left out.
get_release_group(name) ==
    LET b == splitext(name)
    IN  IF HyphenStarts(b) # {} THEN rstrip(Suffix(b, Least(HyphenStarts(b))))
        ELSE IF DotStarts(b) # {} THEN rstrip(Suffix(b, Least(DotStarts(b))))
        ELSE IF LiberalStarts(b) # {} THEN rstrip(Suffix(b, Least(LiberalStarts(b))))
        ELSE IF FallbackStarts(b) # {} THEN rstrip(Suffix(b, Least(FallbackStarts(b))))
        ELSE AfterPatterns(b)

ExtractInit ==
    /\ configs \in ConfigChoices
    /\ movie_files = PlainMovies.files
    /\ movie_monitored = PlainMovies.monitored
    /\ episode_kind = PlainSeries.kind
    /\ episode_monitored = PlainSeries.monitored
    /\ season_monitored = PlainSeries.seasons
    /\ series_monitored = [sid \in SeriesIds |-> TRUE]
    /\ dry_run = FALSE
    /\ monitoring_mode = FALSE
    /\ state = EmptyState
    /\ state_file = [status |-> "absent", content |-> EmptyState]
    /\ backup_file = [status |-> "absent", content |-> EmptyState]
    /\ pc = "idle"
    /\ movies = << >>
    /\ unmonitored_count = 0
    /\ series_list = << >>
    /\ series_id = 0
    /\ seasons = << >>
    /\ season_number = -1
    /\ episodes = << >>
    /\ season_unmonitored_count = 0
    /\ unmonitored_seasons = 0
    /\ puts = << >>
    /\ scans = 0
    /\ faults = 0
    /\ scan_faults = 0
    /\ failed_units = {}
    /\ errors = {}
    /\ reports = << >>
    /\ workers = [w \in 1..1 |-> IdleWorker]
    /\ file_path \in FileNames
    /\ attempt = 0
    /\ retry_delay = 2
    /\ sleeps = << >>
    /\ outcomes = << >>
    /\ release_group = << >>

\* "release_group = get_release_group(file_path, config)"
Extract ==
    /\ pc = "idle"
    /\ release_group' = get_release_group(file_path)
    /\ pc' = "extracted"
    /\ UNCHANGED <<remote, configs, retry, file_path, dry_run, monitoring_mode, state,
                   state_file, backup_file, locals, puts, scans, faults, scan_faults,
                   failed_units, errors, reports, workers>>

ExtractNext == Extract

ExtractSpec == ExtractInit /\ [][ExtractNext]_vars

\* ------------------------------------------------------------------ C30
\* the last index of the name's stem (without extension) that holds a hyphen
LastHyphen(b) == CHOOSE i \in 1..Len(b) : b[i] = "-" /\ \A j \in (i + 1)..Len(b) : b[j] # "-"

\* the stem ends in a hyphen followed by an alphanumeric token
EndsInHyphenToken(b) ==
    /\ \E i \in 1..Len(b) : b[i] = "-"
    /\ LastHyphen(b) < Len(b)
    /\ AllIn(b, LastHyphen(b) + 1, Alnum)

\* C30: for a file name whose stem ends in a hyphen followed by an
\* alphanumeric token, the extractor returns exactly that token, also when
\* the stem has earlier hyphens
C30_TrailingTokenExtracted ==
    (pc = "extracted" /\ EndsInHyphenToken(splitext(file_path))) =>
        release_group = Suffix(splitext(file_path), LastHyphen(splitext(file_path)) + 1)

\* the same for stems whose only hyphen is the one before the token
C30_SingleHyphenTokenExtracted ==
    (/\ pc = "extracted"
     /\ EndsInHyphenToken(splitext(file_path))
     /\ Cardinality({i \in 1..Len(splitext(file_path)) : splitext(file_path)[i] = "-"}) = 1) =>
        release_group = Suffix(splitext(file_path), LastHyphen(splitext(file_path)) + 1)

\* ------------------------------------------------------------------ C31
\* the stem of the name handed to the extractor
Stem == splitext(file_path)
\* the stem has no separator character: it is letters and digits only
NoSeparator(b) == AllIn(b, 1, Alnum)

C32_DictionaryBeforeFallback ==
    (/\ pc = "extracted"
     /\ PositionalStarts(Stem) = {}
     /\ CommonStarts(Stem) # {}) => release_group = <<"w", "e", "b">>

\* the dictionary word is returned when the liberal patterns fail as well
C32_DictionaryAfterFallback ==
    (/\ pc = "extracted"
     /\ PositionalStarts(Stem) = {}
     /\ LiberalOrFallbackStarts(Stem) = {}
     /\ CommonStarts(Stem) # {}) => release_group = <<"w", "e", "b">>

\* ------------------------------------------------------------------ C33
\* what the running scan has reported as unmonitored so far
ReportedNow == reports[Len(reports)].units

\* the step shows that a rollup check ran: it sent a request that failed,
\* sent a PUT, or reported a rollup
CheckRan == faults' # faults \/ puts' # puts \/ reports' # reports

\* C33: a season rollup check runs only in a scan that has newly unmonitored
\* (in a dry run: reported) an episode of that season, and a series rollup
\* check only in a scan that has newly unmonitored a season of that series
C33_RollupOnlyAfterChange ==
    [][/\ (pc = "season_check" /\ CheckRan) =>
            \E e \in EpisodeIds : /\ SeriesOf(e) = series_id
                                  /\ SeasonOf(e) = season_number
                                  /\ <<"episode", e>> \in ReportedNow
       /\ (pc = "series_check" /\ CheckRan) =>
            \E sn \in SeasonNumbers :
                <<"season", SeasonId(series_id, sn)>> \in ReportedNow]_vars

\* a scan in which a series rollup followed a season rollup
C33_SeriesRollupReported ==
    /\ Len(reports) > 0
    /\ \E sid \in SeriesIds : /\ <<"series", sid>> \in ReportedNow
                              /\ \E sn \in SeasonNumbers :
                                    <<"season", SeasonId(sid, sn)>> \in ReportedNow

\* ------------------------------------------------------------------ C34
\* the threads that still hold an episode
BusyWorkers == {w \in DOMAIN workers : workers[w].pc # "idle"}

\* C34: while a season rollup check (or the series check) is due or runs, no
\* thread of the episode batch is still running and no episode of the batch
\* is waiting, whatever the number of threads; the check itself is a step of
\* the main thread that starts no thread
C34_RollupAfterWorkers ==
    [][(pc \in {"season_check", "series_check"}) =>
          (BusyWorkers = {} /\ episodes = << >> /\ workers' = workers)]_vars

\* a season check about to run after a batch in which the pool unmonitored
\* two episodes
C34_CheckAfterPoolBatch ==
    /\ pc = "season_check"
    /\ max_workers > 1
    /\ season_unmonitored_count = 2
    /\ BusyWorkers = {}

\* =============================================================== RetrySpec
\* get_episodes one request at a time: the retry loop that the other
\* specifications take in one step (get_episodes(sid, sn, ok)).
max_retries == 3

NextDelay_Same(delay) == delay

\* "retry_delay *= 2  # Exponential backoff"
NextDelay(delay) == delay * 2

RetryFrame ==
    UNCHANGED <<remote, configs, extractor, dry_run, monitoring_mode, state, state_file,
                backup_file, movies, unmonitored_count, series_list, seasons,
                season_unmonitored_count, unmonitored_seasons, puts, scans, faults,
                scan_faults, failed_units, errors, reports, workers>>

\* a call get_episodes(config, series_id, season_number) on a Sonarr
\* configuration: "max_retries = 3", "retry_delay = 2"
CallGetEpisodes ==
    /\ pc = "idle"
    /\ "sonarr" \in configs
    /\ series_id' \in SeriesIds
    /\ season_number' \in SeasonNumbers
    /\ pc' = "get_episodes"
    /\ UNCHANGED <<retry, episodes>>
    /\ RetryFrame

\* one iteration of "for attempt in range(max_retries)": the request, and
\* what follows it up to the return or the sleep
Attempt ==
    /\ pc = "get_episodes"
    /\ attempt < max_retries
    /\ \E ok \in BOOLEAN :
          /\ outcomes' = Append(outcomes, ok)
          /\ IF ok
             THEN /\ episodes' = get_episodes(series_id, season_number, TRUE)
                  /\ pc' = "returned"
             ELSE IF attempt < max_retries - 1
             THEN /\ pc' = "sleep"
                  /\ UNCHANGED episodes
             ELSE /\ episodes' = << >>
                  /\ pc' = "returned"
    /\ UNCHANGED <<attempt, retry_delay, sleeps, series_id, season_number>>
    /\ RetryFrame

\* "time.sleep(retry_delay)", "retry_delay *= 2", and the next iteration
Sleep ==
    /\ pc = "sleep"
    /\ sleeps' = Append(sleeps, retry_delay)
    /\ retry_delay' = NextDelay(retry_delay)
    /\ attempt' = attempt + 1
    /\ pc' = "get_episodes"
    /\ UNCHANGED <<outcomes, episodes, series_id, season_number>>
    /\ RetryFrame

RetryNext == CallGetEpisodes \/ Attempt \/ Sleep

RetrySpec == Init /\ [][RetryNext]_vars

\* ------------------------------------------------------------------ C35
\* the requests made so far that failed
FailedAttempts == {i \in 1..Len(outcomes) : ~outcomes[i]}

\* C35: get_episodes makes at most 3 requests; it has waited 2 seconds after
\* the first failure and 4 after the second, and nothing after the third; a
\* successful request is the last one, and its episodes are returned; after
\* three failures the empty list is returned
C35_ThreeAttemptsWithBackoff ==
    /\ Len(outcomes) <= 3
    /\ \A i \in 1..(Len(outcomes) - 1) : ~outcomes[i]
    /\ sleeps = SubSeq(<<2, 4>>, 1, Len(sleeps))
    /\ Len(sleeps) = IF pc = "sleep" THEN Len(outcomes) - 1
                     ELSE Cardinality(FailedAttempts \ {3})
    /\ pc = "returned" =>
          IF outcomes[Len(outcomes)]
          THEN episodes = get_episodes(series_id, season_number, TRUE)
          ELSE Len(outcomes) = 3 /\ episodes = << >>

\* the call returned an empty list, after three failures, for a season that
\* has episodes with files
C35_GaveUpAfterThree ==
    /\ pc = "returned"
    /\ outcomes = <<FALSE, FALSE, FALSE>>
    /\ sleeps = <<2, 4>>
    /\ episodes = << >>
    /\ get_episodes(series_id, season_number, TRUE) # << >>

\* ------------------------------------------------------------------ C36
\* the scan has ended and the state file holds the state just saved
SavedNow ==
    /\ pc = "idle"
    /\ state_file.status = "ok"
    /\ state_file.content = JsonDump(state)

\* C36: after a save, for every series identifier and season number, the
\* lookup of the scan finds the season in the state loaded back from the
\* file if and only if it finds it in the state that was saved.
C36_RoundTripKeepsMembership ==
    SavedNow =>
        \A sid \in SeriesIds : \A sn \in SeasonNumbers :
            SeasonTracked(load_state(state_file).sonarr, sid, sn)
                <=> SeasonTracked(state.sonarr, sid, sn)

\* ------------------------------------------------------------------ C37
\* the series-level check unmonitors the series: upstream, or in the record
SeriesUnmonitoredNow ==
    /\ pc = "series_check"
    /\ \/ series_monitored[series_id] /\ ~series_monitored'[series_id]
       \/ /\ ~In(series_id, state.sonarr.unmonitored_ids)
          /\ In(series_id, state'.sonarr.unmonitored_ids)

\* C37: whatever requests fail, the series-level check unmonitors a series
\* only if every season other than season 0 that has episodes with files
\* in the library is recorded in the series' unmonitored_seasons.
C37_FailedFetchKeepsSeries ==
    [][ SeriesUnmonitoredNow =>
            \A sn \in SeasonNumbers \ {0} :
                EpisodesWithFiles(series_id, sn) # {} =>
                    In(sn, GetOrEmpty(state.sonarr.unmonitored_seasons,
                                      IntKey(series_id)))
      ]_vars

\* ------------------------------------------------------------------ C38
\* a season PUT, or a series PUT, of this step that succeeded
OkPutNow(kind, id) ==
    \E i \in 1..Len(NewPuts) :
        NewPuts[i].kind = kind /\ NewPuts[i].id = id /\ NewPuts[i].ok

NoDuplicates(list) == Cardinality(Range(list)) = Len(list)

Excluded(sid) ==
    /\ pc # "idle"
    /\ monitoring_mode
    /\ LoadedState.last_scan # 0
    /\ In(sid, LoadedState.sonarr.unmonitored_ids)

\* the scan holds the series, or an episode of it, to work on
InWork(sid) ==
    \/ \E i \in 1..Len(series_list) : series_list[i].id = sid
    \/ pc \in {"season", "episode", "season_check", "series_check"} /\ series_id = sid
    \/ \E i \in 1..Len(episodes) : SeriesOf(episodes[i].id) = sid
    \/ \E w \in DOMAIN workers :
          /\ workers[w].pc # "idle"
          /\ Service = "sonarr"
          /\ SeriesOf(workers[w].ep.id) = sid

\* C40: during a monitoring-mode scan that started from a state with a
\* last_scan, a series recorded in the list of unmonitored series is never
\* taken to work on, no episode of it is evaluated, and no PUT is sent for
\* it, its seasons or its episodes.
C40_UnmonitoredSeriesExcluded ==
    [][ \A sid \in SeriesIds :
          Excluded(sid) =>
            (/\ ~InWork(sid)
             /\ \A i \in 1..Len(NewPuts) :
                   /\ NewPuts[i].kind = "episode" => SeriesOf(NewPuts[i].id) # sid
                   /\ NewPuts[i].kind = "season" => NewPuts[i].id \div 100 # sid
                   /\ NewPuts[i].kind = "series" => NewPuts[i].id # sid)
      ]_vars

\* a forced monitoring-mode scan has passed over a series that is recorded
\* as unmonitored and has a monitored episode with a file
C40_SeriesPassedOver ==
    \E sid \in SeriesIds :
        /\ Excluded(sid)
        /\ pc = "save"
        /\ state.sonarr.processed_ids = << >>
        /\ \E e \in EpisodeIds :
              SeriesOf(e) = sid /\ episode_monitored[e] /\ episode_kind[e] # "ABSENT"

====
